---- MODULE Spec2Model ----
(***************************************************************************)
(* A model of the rich-text editor's editing engine: the live document     *)
(* tree under the editor root, the window selection, the snapshot history  *)
(* (useHistoryStack), the command engine (useEditorCommands) and the image *)
(* selection / resize handlers of RichTextEditor.                          *)
(*                                                                         *)
(* Conventions.  A child index in a path is 1-based here (the code's       *)
(* childNodes index plus one); an offset inside a node is 0-based as in    *)
(* the DOM.  A text is a sequence of one-character strings.  A serialized  *)
(* document (innerHTML) is represented by the canonical tree of the        *)
(* string: no empty text node, no two adjacent text nodes, no node         *)
(* identity.  Time is in milliseconds.                                     *)
(***************************************************************************)
EXTENDS Integers, Sequences, FiniteSets, TLC

VARIABLES
    doc,              \* live child nodes of editorRef.current
    sel,              \* window.getSelection(): NoRange or one range
    undoStack,        \* useState<HistoryEntry[]>
    redoStack,        \* useState<HistoryEntry[]>
    isUndoRedoing,    \* isUndoRedoing.current
    sinceSave,        \* min(Date.now() - lastSaveTime.current, DEBOUNCE_MS)
    debounceTimeout,  \* debounceTimeout.current: ms until the timer it names fires, or NoTimer
    timers,           \* the pending debounce timers: ms until each one fires
    resetTimers,      \* number of pending setTimeout(.., 0) flag resets
    selectedImage,    \* "none" or "held" (the held node is marked in doc, if attached)
    isResizing,       \* isResizing state
    resizeStartData,  \* resizeStartData.current
    editorAttached,   \* the editor root is still in the page
    op,               \* history variable: the handler that ran last
    ran,              \* history variable: that handler got past its precondition
    preStack,         \* history variable: the undo stack's snapshots before the last undo/redo
    pre,              \* history variable: innerHTML before that handler
    run,              \* history variable: the current command sequence and its undos
    burst,            \* history variable: the current rapid burst of commands
    sinceCmd,         \* history variable: min(ms since the last command, DEBOUNCE_MS)
    cursorFailed,     \* history variable: the last restore could not resolve a path
    allPushed,        \* history variable: the snapshots pushed under SpecBound, oldest first
    call,             \* history variable: a function of the commands applied to an argument
    steps             \* history variable: the steps taken so far

vars == <<doc, sel, undoStack, redoStack, isUndoRedoing, sinceSave,
          debounceTimeout, timers, resetTimers, selectedImage, isResizing,
          resizeStartData, editorAttached,
          op, ran, pre, preStack, run, burst, sinceCmd, cursorFailed, allPushed, call, steps>>

(***************************************************************************)
(* Program constants.                                                      *)
(***************************************************************************)
MAX_HISTORY_SIZE == 100
DEBOUNCE_MS == 50
MIN_IMAGE_WIDTH == 50
MAX_IMAGE_WIDTH == 800

BLOCK_ELEMENTS == {"H1", "H2", "H3", "P", "LI", "BLOCKQUOTE", "PRE"}
ALLOWED_TAGS == {"P", "H1", "H2", "H3", "UL", "OL", "LI", "BLOCKQUOTE", "PRE",
                 "A", "B", "STRONG", "I", "EM", "U", "S", "STRIKE", "SPAN",
                 "BR", "IMG", "DIV"}
blockTags == {"DIV", "SECTION", "ARTICLE", "HEADER", "FOOTER", "MAIN", "NAV", "ASIDE"}
allowedStyles == <<"color", "background-color", "background", "font-size",
                  "font-family", "font-weight", "font-style", "text-decoration",
                  "text-decoration-line", "text-decoration-color",
                  "text-decoration-style", "text-align", "text-indent",
                  "text-transform", "line-height", "letter-spacing",
                  "word-spacing", "margin", "margin-top", "margin-right",
                  "margin-bottom", "margin-left", "padding", "padding-top",
                  "padding-right", "padding-bottom", "padding-left", "border",
                  "border-radius", "width", "height", "max-width", "max-height",
                  "display", "vertical-align">>

(***************************************************************************)
(* Bounds of the model.                                                    *)
(***************************************************************************)
MaxSteps == 4        \* handler and environment steps per behaviour
TickStep == 30       \* the short time step, in ms
MaxPushes == 102     \* saves in the history-bound specification

Min(a, b) == IF a < b THEN a ELSE b
Max(a, b) == IF a > b THEN a ELSE b

(***************************************************************************)
(* Nodes.                                                                  *)
(***************************************************************************)
Text(s) == [tag |-> "#text", kids |-> <<>>, text |-> s, style |-> <<>>,
            href |-> "", cls |-> FALSE, w |-> 0, h |-> 0, held |-> FALSE,
            other |-> {}]
Elem(t, k) == [tag |-> t, kids |-> k, text |-> <<>>, style |-> <<>>,
               href |-> "", cls |-> FALSE, w |-> 0, h |-> 0, held |-> FALSE,
               other |-> {}]
IsText(n) == n.tag = "#text"
Root(d) == Elem("#root", d)

RECURSIVE TextContent(_)
RECURSIVE KidsText(_)
TextContent(n) == IF IsText(n) THEN n.text ELSE KidsText(n.kids)
KidsText(ks) == IF ks = <<>> THEN <<>> ELSE TextContent(Head(ks)) \o KidsText(Tail(ks))

\* el.style[key] = value
SetStyle(style, key, value) ==
    IF \E i \in 1..Len(style) : style[i][1] = key
    THEN [i \in 1..Len(style) |-> IF style[i][1] = key THEN <<key, value>> ELSE style[i]]
    ELSE Append(style, <<key, value>>)

(***************************************************************************)
(* Paths.                                                                  *)
(***************************************************************************)
RECURSIVE Resolves(_, _)
Resolves(n, path) ==
    IF path = <<>> THEN TRUE
    ELSE /\ Head(path) \in 1..Len(n.kids)
         /\ Resolves(n.kids[Head(path)], Tail(path))

RECURSIVE NodeAt(_, _)
NodeAt(n, path) ==
    IF path = <<>> THEN n ELSE NodeAt(n.kids[Head(path)], Tail(path))

Front(s) == SubSeq(s, 1, Len(s) - 1)
Last(s) == s[Len(s)]
IsPrefix(p, q) == Len(p) <= Len(q) /\ SubSeq(q, 1, Len(p)) = p

\* the kids of the node at path, with kids[i .. i+cnt-1] replaced by new
RECURSIVE SpliceKids(_, _, _, _, _)
SpliceKids(ks, path, i, cnt, new) ==
    IF path = <<>>
    THEN SubSeq(ks, 1, i - 1) \o new \o SubSeq(ks, i + cnt, Len(ks))
    ELSE [ks EXCEPT ![Head(path)] =
            [@ EXCEPT !.kids = SpliceKids(@, Tail(path), i, cnt, new)]]

\* the node at a non-empty path replaced by node
ReplaceNode(ks, path, node) == SpliceKids(ks, Front(path), Last(path), 1, <<node>>)

\* all paths of the nodes below node n, each prefixed by base
RECURSIVE PathsOf(_, _)
PathsOf(n, base) ==
    UNION { {Append(base, i)} \cup PathsOf(n.kids[i], Append(base, i)) : i \in 1..Len(n.kids) }

DocPaths(d) == PathsOf(Root(d), <<>>)

(***************************************************************************)
(* innerHTML: serialization and parsing.                                   *)
(***************************************************************************)
\* reading innerHTML: empty text nodes vanish, adjacent text nodes become
\* one run of characters, node identity is lost
RECURSIVE Serialize(_)
Serialize(ks) ==
    IF ks = <<>> THEN <<>>
    ELSE LET k == Head(ks)
             rest == Serialize(Tail(ks))
         IN  IF IsText(k)
             THEN IF k.text = <<>> THEN rest
                  ELSE IF rest # <<>> /\ IsText(Head(rest))
                       THEN <<Text(k.text \o Head(rest).text)>> \o Tail(rest)
                       ELSE <<Text(k.text)>> \o rest
             ELSE <<[k EXCEPT !.kids = Serialize(k.kids), !.held = FALSE]>> \o rest

\* start tags that close an open <p> element in the HTML parser
ClosesP == {"P", "H1", "H2", "H3", "UL", "OL", "LI", "BLOCKQUOTE", "PRE", "DIV",
            "SECTION", "ARTICLE", "HEADER", "FOOTER", "MAIN", "NAV", "ASIDE"}

FirstCloser(ks) ==
    IF \E i \in 1..Len(ks) : ks[i].tag \in ClosesP
    THEN CHOOSE i \in 1..Len(ks) :
            /\ ks[i].tag \in ClosesP
            /\ \A j \in 1..(i - 1) : ks[j].tag \notin ClosesP
    ELSE 0

\* table parts, and the parent each of them needs: elsewhere the parser
\* ignores their start and end tags and keeps only what is between them
TagIgnored(tag, parent) ==
    /\ tag \in {"CAPTION", "COLGROUP", "TBODY", "THEAD", "TFOOT", "TR", "TD", "TH"}
    /\ ~ \/ tag \in {"CAPTION", "COLGROUP", "TBODY", "THEAD", "TFOOT"} /\ parent = "TABLE"
         \/ tag = "TR" /\ parent \in {"TBODY", "THEAD", "TFOOT"}
         \/ tag \in {"TD", "TH"} /\ parent = "TR"

\* assigning innerHTML: the fragment parser.  A block start tag directly
\* inside a <p> closes the <p>; the rest of its content continues in the
\* parent and the then unmatched </p> makes an empty paragraph.  parent
\* is the tag of the element the nodes are inserted in.
RECURSIVE ParseIn(_, _)
ParseIn(ks, parent) ==
    IF ks = <<>> THEN <<>>
    ELSE LET k == Head(ks)
             j == FirstCloser(k.kids)
         IN  IF k.tag = "P" /\ j > 0
             THEN <<[k EXCEPT !.kids = ParseIn(SubSeq(k.kids, 1, j - 1), "P")]>>
                  \o ParseIn(SubSeq(k.kids, j, Len(k.kids)), parent)
                  \o <<Elem("P", <<>>)>>
                  \o ParseIn(Tail(ks), parent)
             ELSE IF TagIgnored(k.tag, parent)
                  THEN ParseIn(k.kids, parent) \o ParseIn(Tail(ks), parent)
                  ELSE <<[k EXCEPT !.kids = ParseIn(k.kids, k.tag)]>>
                       \o ParseIn(Tail(ks), parent)

\* the characters between ignored tags end up in one text node
Parse(ks) == Serialize(ParseIn(ks, "#fragment"))

\* editorRef.current.innerHTML
InnerHTML(d) == Serialize(d)

(***************************************************************************)
(* Selection.                                                              *)
(***************************************************************************)
NoRange == [rangeCount |-> 0, sp |-> <<>>, so |-> 0, ep |-> <<>>, eo |-> 0]
Range(p, a, q, b) == [rangeCount |-> 1, sp |-> p, so |-> a, ep |-> q, eo |-> b]
Caret(p, o) == Range(p, o, p, o)
IsCollapsed(s) == s.sp = s.ep /\ s.so = s.eo

\* the selection after every child of the editor root was replaced: the
\* boundary points of a live range inside removed nodes move to (root, 0)
SelAfterReplaceAll(s) == IF s.rangeCount = 0 THEN s ELSE Caret(<<>>, 0)

\* length of a node as a range boundary container
NodeLength(n) == IF IsText(n) THEN Len(n.text) ELSE Len(n.kids)

(***************************************************************************)
(* useHistoryStack.                                                        *)
(***************************************************************************)
NoTimer == -1

NullCursor == [null |-> TRUE, startOffset |-> 0, endOffset |-> 0,
               startPath |-> <<>>, endPath |-> <<>>]

\* getNodePath is the identity on the paths of this model: a range
\* container is held as its path of child indices from the editor root
getNodePath(path) == path

getNodeFromPathOk(d, path) == Resolves(Root(d), path)

getCursorPosition(s) ==
    IF s.rangeCount = 0 THEN NullCursor
    ELSE [null |-> FALSE, startOffset |-> s.so, endOffset |-> s.eo,
          startPath |-> getNodePath(s.sp), endPath |-> getNodePath(s.ep)]

\* both anchor paths of a cursor descriptor resolve in document d
CursorResolves(position, d) ==
    /\ getNodeFromPathOk(d, position.startPath)
    /\ getNodeFromPathOk(d, position.endPath)

\* restoreCursorPosition dropping the selection when a path does not resolve
restoreCursorPositionDropping(position, d, s) ==
    IF position.null THEN s
    ELSE IF ~CursorResolves(position, d) THEN NoRange
    ELSE Range(position.startPath,
               Min(position.startOffset, NodeLength(NodeAt(Root(d), position.startPath))),
               position.endPath,
               Min(position.endOffset, NodeLength(NodeAt(Root(d), position.endPath))))

\* the selection after restoreCursorPosition(position) on document d, s
\* being the selection before the call
restoreCursorPosition(position, d, s) ==
    IF position.null THEN s
    ELSE IF ~CursorResolves(position, d) THEN s
    ELSE LET startNode == NodeAt(Root(d), position.startPath)
             endNode == NodeAt(Root(d), position.endPath)
             a == Min(position.startOffset, Len(TextContent(startNode)))
             b == Min(position.endOffset, Len(TextContent(endNode)))
         IN  IF a > NodeLength(startNode) \/ b > NodeLength(endNode)
             THEN s     \* setStart / setEnd throws, the catch ignores it
             ELSE Range(position.startPath, a, position.endPath, b)

HistoryEntry(d, s) == [html |-> InnerHTML(d), cursorPosition |-> getCursorPosition(s)]

\* the state saveHistory reads and writes
Hist == [undoStack |-> undoStack, redoStack |-> redoStack,
         sinceSave |-> sinceSave, debounceTimeout |-> debounceTimeout,
         timers |-> timers,
         isUndoRedoing |-> isUndoRedoing]

\* the push without the cap
PushUncapped(stack, entry) == Append(stack, entry)

PushCapped(stack, entry) ==
    LET newStack == Append(stack, entry)
    IN  IF Len(newStack) > MAX_HISTORY_SIZE
        THEN SubSeq(newStack, Len(newStack) - MAX_HISTORY_SIZE + 1, Len(newStack))
        ELSE newStack

\* clearTimeout(id): the timer that debounceTimeout.current names is no
\* longer pending; nothing happens when it has fired already
clearTimeout(pending, id) ==
    IF \E i \in 1..Len(pending) : pending[i] = id
    THEN LET i == CHOOSE j \in 1..Len(pending) : pending[j] = id
         IN  SubSeq(pending, 1, i - 1) \o SubSeq(pending, i + 1, Len(pending))
    ELSE pending

\* saveHistory without its re-entrancy guard
saveHistoryUnguarded(h, d, s) ==
    IF h.sinceSave < DEBOUNCE_MS
    THEN [h EXCEPT !.timers = Append(clearTimeout(@, h.debounceTimeout), DEBOUNCE_MS),
                   !.debounceTimeout = DEBOUNCE_MS]
    ELSE [h EXCEPT !.sinceSave = 0,
                   !.undoStack = PushCapped(h.undoStack, HistoryEntry(d, s)),
                   !.redoStack = <<>>]

\* saveHistory scheduling its timer without clearing the one before
saveHistoryStacking(h, d, s) ==
    IF h.isUndoRedoing THEN h
    ELSE IF h.sinceSave < DEBOUNCE_MS
         THEN [h EXCEPT !.timers = Append(@, DEBOUNCE_MS),
                        !.debounceTimeout = DEBOUNCE_MS]
         ELSE [h EXCEPT !.sinceSave = 0,
                        !.undoStack = PushCapped(h.undoStack, HistoryEntry(d, s)),
                        !.redoStack = <<>>]

\* saveHistory() called with history state h on document d, selection s
saveHistory(h, d, s) ==
    IF h.isUndoRedoing THEN h
    ELSE IF h.sinceSave < DEBOUNCE_MS
         THEN [h EXCEPT !.timers = Append(clearTimeout(@, h.debounceTimeout),
                                          DEBOUNCE_MS),
                        !.debounceTimeout = DEBOUNCE_MS]
         ELSE [h EXCEPT !.sinceSave = 0,
                        !.undoStack = PushCapped(h.undoStack, HistoryEntry(d, s)),
                        !.redoStack = <<>>]

\* that call pushes a snapshot
SavePushes(h) == ~h.isUndoRedoing /\ h.sinceSave >= DEBOUNCE_MS

SetHist(h) ==
    /\ undoStack' = h.undoStack
    /\ redoStack' = h.redoStack
    /\ sinceSave' = h.sinceSave
    /\ debounceTimeout' = h.debounceTimeout
    /\ timers' = h.timers

(***************************************************************************)
(* DOM operations on the live tree, at the ranges of this model: a         *)
(* collapsed range anywhere, a range inside one text node, or a range over *)
(* whole children of one element.                                          *)
(***************************************************************************)
Prefixes(path) == { SubSeq(path, 1, k) : k \in 1..Len(path) }

\* the nearest inclusive ancestor below the root whose tag is in tags,
\* as a path; <<>> when there is none
NearestAncestor(d, path, tags) ==
    LET hits == { q \in Prefixes(path) : NodeAt(Root(d), q).tag \in tags }
    IN  IF hits = {} THEN <<>>
        ELSE CHOOSE q \in hits : \A r \in hits : Len(r) <= Len(q)

findBlockParent(d, path) == NearestAncestor(d, path, BLOCK_ELEMENTS)

InOneText(d, s) == s.sp = s.ep /\ IsText(NodeAt(Root(d), s.sp))
\* a range over whole children of one element
InOneElement(d, s) == s.sp = s.ep /\ ~IsText(NodeAt(Root(d), s.sp))
SupportedSel(d, s) ==
    s.rangeCount = 0 \/ IsCollapsed(s) \/ InOneText(d, s) \/ InOneElement(d, s)

\* the nodes range.extractContents() returns
RangeContents(d, s) ==
    IF IsCollapsed(s) THEN <<>>
    ELSE LET c == NodeAt(Root(d), s.sp)
         IN  IF IsText(c) THEN <<Text(SubSeq(c.text, s.so + 1, s.eo))>>
             ELSE SubSeq(c.kids, s.so + 1, s.eo)

\* range.toString()
RangeText(d, s) == KidsText(RangeContents(d, s))

\* the document after range.deleteContents() / extractContents(); the
\* range is then collapsed at its start
DeleteContents(d, s) ==
    IF IsCollapsed(s) THEN d
    ELSE LET t == NodeAt(Root(d), s.sp)
         IN  IF IsText(t)
             THEN ReplaceNode(d, s.sp,
                      [t EXCEPT !.text = SubSeq(t.text, 1, s.so)
                                         \o SubSeq(t.text, s.eo + 1, Len(t.text))])
             ELSE SpliceKids(d, s.sp, s.so + 1, s.eo - s.so, <<>>)

\* range.insertNode(nodes) at the boundary point (path, offset): a text
\* container is split first, also at offset 0 or at its end
InsertAt(d, path, offset, nodes) ==
    LET c == NodeAt(Root(d), path)
    IN  IF IsText(c)
        THEN [doc |-> SpliceKids(d, Front(path), Last(path), 1,
                         <<[c EXCEPT !.text = SubSeq(c.text, 1, offset)]>>
                         \o nodes
                         \o <<Text(SubSeq(c.text, offset + 1, Len(c.text)))>>),
              parent |-> Front(path),
              idx |-> Last(path) + 1]
        ELSE [doc |-> SpliceKids(d, path, offset + 1, 0, nodes),
              parent |-> path,
              idx |-> offset + 1]

\* a boundary point (path, offset) of a live range after the child idx of
\* the node at parent was removed
AdjustRemoved(path, offset, parent, idx) ==
    IF IsPrefix(Append(parent, idx), path) THEN <<parent, idx - 1>>
    ELSE IF path = parent
         THEN <<path, IF offset > idx - 1 THEN offset - 1 ELSE offset>>
         ELSE IF IsPrefix(parent, path) /\ path[Len(parent) + 1] > idx
              THEN <<[path EXCEPT ![Len(parent) + 1] = @ - 1], offset>>
              ELSE <<path, offset>>

SelAfterRemoved(s, parent, idx) ==
    IF s.rangeCount = 0 THEN s
    ELSE LET a == AdjustRemoved(s.sp, s.so, parent, idx)
             b == AdjustRemoved(s.ep, s.eo, parent, idx)
         IN  Range(a[1], a[2], b[1], b[2])

\* copying markup: target.innerHTML = source.innerHTML
CopyMarkup(ks) == Parse(Serialize(ks))

\* String.prototype.trim
RECURSIVE Trim(_)
Trim(t) ==
    LET IsSpace(c) == c \in {" ", "\n", "\t"}
    IN  IF t # <<>> /\ IsSpace(Head(t)) THEN Trim(Tail(t))
        ELSE IF t # <<>> /\ IsSpace(Last(t)) THEN Trim(Front(t))
             ELSE t

(***************************************************************************)
(* useEditorSelection.                                                     *)
(***************************************************************************)
StyleValue(style, key) ==
    IF \E i \in 1..Len(style) : style[i][1] = key
    THEN (CHOOSE pr \in { style[i] : i \in 1..Len(style) } : pr[1] = key)[2]
    ELSE ""

\* formats.key = value as the loop of getActiveFormats() assigns it on the
\* way up from the range start: an element that defines the entry overwrites
\* what an element below it has set
OverwriteKeepingFirst(old, own) == IF old # "" THEN old ELSE own

Overwrite(old, own) == IF own # "" THEN own ELSE old

\* getActiveFormats(): the loop ascends from the start container to the
\* editor root, which is excluded; an absent entry is "", a flag is a boolean
getActiveFormats(d, s) ==
    LET lower == [H1 |-> "h1", H2 |-> "h2", H3 |-> "h3", P |-> "p", LI |-> "li",
                  BLOCKQUOTE |-> "blockquote", PRE |-> "pre"]
        Flag(b) == IF b THEN "true" ELSE ""
        Own(n, key) ==
            CASE key = "bold" ->
                     Flag(\/ n.tag \in {"B", "STRONG"}
                          \/ StyleValue(n.style, "font-weight") \in {"bold", "700"})
              [] key = "italic" ->
                     Flag(\/ n.tag \in {"I", "EM"}
                          \/ StyleValue(n.style, "font-style") = "italic")
              [] key = "underline" ->
                     Flag(\/ n.tag = "U"
                          \/ StyleValue(n.style, "text-decoration") = "underline")
              [] key = "strike" ->
                     Flag(\/ n.tag \in {"S", "STRIKE"}
                          \/ StyleValue(n.style, "text-decoration") = "line-through")
              [] key = "link" -> IF n.tag = "A" THEN n.href ELSE ""
              [] key = "block" -> IF n.tag \in BLOCK_ELEMENTS THEN lower[n.tag] ELSE ""
              [] key = "unorderedList" -> Flag(n.tag = "UL")
              [] key = "orderedList" -> Flag(n.tag = "OL")
              [] OTHER -> StyleValue(n.style, key)
        RECURSIVE Ascend(_, _, _)
        Ascend(path, key, value) ==
            IF path = <<>> THEN value
            ELSE LET n == NodeAt(Root(d), path)
                 IN  Ascend(Front(path), key,
                            IF IsText(n) THEN value ELSE Overwrite(value, Own(n, key)))
        At(key) == IF s.rangeCount = 0 THEN "" ELSE Ascend(s.sp, key, "")
    IN  [bold |-> At("bold") # "",
         italic |-> At("italic") # "",
         underline |-> At("underline") # "",
         strike |-> At("strike") # "",
         link |-> At("link"),
         block |-> At("block"),
         fontSize |-> At("font-size"),
         fontFamily |-> At("font-family"),
         color |-> At("color"),
         backgroundColor |-> At("background-color"),
         unorderedList |-> At("unorderedList") # "",
         orderedList |-> At("orderedList") # ""]

\* isFullBlockSelected(range, blockElement), block being the path of blockElement
isFullBlockSelected(d, s, block) ==
    LET b == NodeAt(Root(d), block)
        startMatch == s.sp = block /\ s.so = 0
        endMatch == s.ep = block /\ s.eo = Len(b.kids)
        blockText == TextContent(b)
        selectedText == RangeText(d, s)
    IN  \/ startMatch /\ endMatch
        \/ Trim(blockText) = Trim(selectedText) /\ Len(selectedText) > 0

(***************************************************************************)
(* useEditorCommands: what each operation does to the document and the     *)
(* selection once it is past its precondition and has called saveHistory.  *)
(***************************************************************************)
TagForms(tagName) ==
    CASE tagName = "B" -> {"B", "STRONG"}
      [] tagName = "I" -> {"I", "EM"}
      [] tagName = "U" -> {"U"}
      [] tagName = "S" -> {"S", "STRIKE"}

\* the element at path q replaced by its children; a live range boundary
\* inside the element ends up in the parent, just after the moved children
Unwrap(d, q) ==
    LET el == NodeAt(Root(d), q)
    IN  [doc |-> SpliceKids(d, Front(q), Last(q), 1, el.kids),
         sel |-> Caret(Front(q), Last(q) - 1 + Len(el.kids))]

\* the selected contents moved into the new element wrapper
WrapRange(d, s, wrapper) ==
    LET inner == [wrapper EXCEPT !.kids = RangeContents(d, s)]
        cut == DeleteContents(d, s)
    IN  [doc |-> InsertAt(cut, s.sp, s.so, <<inner>>).doc,
         sel |-> Caret(s.sp, s.so)]

\* parent.style.cssText = parentStyle + ' ' + childStyle: of two
\* declarations of one property the later one stands
MergeStyle(parentStyle, childStyle) ==
    SelectSeq(parentStyle, LAMBDA pr : StyleValue(childStyle, pr[1]) = "") \o childStyle

\* the first loop of cleanupNestedSpans, on the element el: each span
\* below it whose parent is a span gives its style to that parent and is
\* replaced by its children, in document order
RECURSIVE MergeSpans(_, _)
MergeSpans(el, i) ==
    IF i > Len(el.kids) THEN el
    ELSE LET k == el.kids[i]
         IN  IF k.tag = "SPAN" /\ el.tag = "SPAN"
             THEN MergeSpans([el EXCEPT !.style = MergeStyle(@, k.style),
                                        !.kids = SubSeq(@, 1, i - 1) \o k.kids
                                                 \o SubSeq(@, i + 1, Len(@))], i)
             ELSE MergeSpans([el EXCEPT !.kids[i] = MergeSpans(k, 1)], i + 1)

RECURSIVE HasImage(_)
HasImage(ks) == \E i \in 1..Len(ks) : ks[i].tag = "IMG" \/ HasImage(ks[i].kids)

\* the second loop: the spans below the element without text and image
\* are removed
RECURSIVE PruneSpans(_)
PruneSpans(ks) ==
    LET keep == SelectSeq(ks, LAMBDA k : ~(/\ k.tag = "SPAN"
                                           /\ Trim(TextContent(k)) = <<>>
                                           /\ ~HasImage(k.kids)))
    IN  [i \in 1..Len(keep) |-> [keep[i] EXCEPT !.kids = PruneSpans(@)]]

\* cleanupNestedSpans(span): both loops look at the descendants of span
\* only; span itself is neither merged into its parent nor removed
cleanupNestedSpans(span) ==
    LET merged == MergeSpans(span, 1)
    IN  [merged EXCEPT !.kids = PruneSpans(@)]

\* wrapSelectionWithSpan without its full-block branch
wrapSelectionWithSpanAlways(d, s, key, value) ==
    LET span == cleanupNestedSpans(
                    [Elem("SPAN", RangeContents(d, s))
                        EXCEPT !.style = <<<<key, value>>>>])
    IN  [doc |-> InsertAt(DeleteContents(d, s), s.sp, s.so, <<span>>).doc,
         sel |-> Caret(s.sp, s.so)]

wrapSelectionWithSpan(d, s, key, value) ==
    LET blockElement == findBlockParent(d, s.sp)
        isFullBlock == blockElement # <<>> /\ isFullBlockSelected(d, s, blockElement)
    IN  IF isFullBlock
        THEN [doc |-> ReplaceNode(d, blockElement,
                         [NodeAt(Root(d), blockElement) EXCEPT
                             !.style = SetStyle(@, key, value)]),
              sel |-> s]
        ELSE LET span == cleanupNestedSpans(
                             [Elem("SPAN", RangeContents(d, s))
                                 EXCEPT !.style = <<<<key, value>>>>])
             IN  [doc |-> InsertAt(DeleteContents(d, s), s.sp, s.so, <<span>>).doc,
                  sel |-> Caret(s.sp, s.so)]

toggleInlineStyle(d, s, tagName) ==
    LET formats == getActiveFormats(d, s)
        isActive == \/ tagName = "B" /\ formats.bold
                    \/ tagName = "I" /\ formats.italic
                    \/ tagName = "U" /\ formats.underline
                    \/ tagName = "S" /\ formats.strike
        el == NearestAncestor(d, s.sp, TagForms(tagName))
    IN  IF isActive
        THEN IF el = <<>> THEN [doc |-> d, sel |-> s] ELSE Unwrap(d, el)
        ELSE WrapRange(d, s, Elem(tagName, <<>>))

setBlockType(d, s, tagName) ==
    LET blockElement == findBlockParent(d, s.sp)
    IN  IF blockElement = <<>>
        THEN LET ins == InsertAt(d, s.sp, s.so, <<Elem(tagName, <<Elem("BR", <<>>)>>)>>)
             IN  [doc |-> ins.doc, sel |-> Caret(Append(ins.parent, ins.idx), 0)]
        ELSE LET old == NodeAt(Root(d), blockElement)
                 newBlock == [Elem(tagName, CopyMarkup(old.kids)) EXCEPT !.style = old.style]
             IN  [doc |-> ReplaceNode(d, blockElement, newBlock),
                  sel |-> Caret(blockElement, Len(newBlock.kids))]

\* list.children: the element children
ElementKids(n) == SelectSeq(n.kids, LAMBDA k : ~IsText(k))

\* the paragraphs made of list items without their content
ItemParagraphsEmpty(items) == [i \in 1..Len(items) |-> Elem("P", <<>>)]

\* items.forEach: p.innerHTML = item.innerHTML
ItemParagraphs(items) == [i \in 1..Len(items) |-> Elem("P", CopyMarkup(items[i].kids))]

toggleList(d, s, listType) ==
    LET formats == getActiveFormats(d, s)
        currentListType == IF formats.unorderedList THEN "UL"
                           ELSE IF formats.orderedList THEN "OL" ELSE "none"
        blockElement == findBlockParent(d, s.sp)
    IN  IF currentListType = listType
        THEN IF blockElement # <<>> /\ NodeAt(Root(d), blockElement).tag = "LI"
                /\ Len(blockElement) > 1
             THEN LET list == Front(blockElement)
                      items == ElementKids(NodeAt(Root(d), list))
                      paragraphs == ItemParagraphs(items)
                  IN  [doc |-> SpliceKids(d, Front(list), Last(list), 1, paragraphs),
                       sel |-> Caret(Front(list), Last(list) - 1)]
             ELSE [doc |-> d, sel |-> s]
        ELSE IF currentListType # "none"
             THEN LET el == NearestAncestor(d, s.sp, {"UL", "OL"})
                      newList == Elem(listType, CopyMarkup(NodeAt(Root(d), el).kids))
                  IN  [doc |-> ReplaceNode(d, el, newList),
                       sel |-> Caret(Front(el), Last(el) - 1)]
             ELSE IF blockElement # <<>>
                  THEN LET li == Elem("LI", CopyMarkup(NodeAt(Root(d), blockElement).kids))
                       IN  [doc |-> ReplaceNode(d, blockElement, Elem(listType, <<li>>)),
                            sel |-> Caret(Append(blockElement, 1), Len(li.kids))]
                  ELSE LET li == Elem("LI", IF RangeText(d, s) = <<>>
                                            THEN <<Elem("BR", <<>>)>>
                                            ELSE <<Text(RangeText(d, s))>>)
                           ins == InsertAt(DeleteContents(d, s), s.sp, s.so,
                                           <<Elem(listType, <<li>>)>>)
                       IN  [doc |-> ins.doc,
                            sel |-> Caret(ins.parent \o <<ins.idx, 1>>,
                                          Len(li.kids))]

insertLink(d, s, url) ==
    LET text == IF IsCollapsed(s) THEN url ELSE RangeText(d, s)
        link == [Elem("A", IF text = <<>> THEN <<>> ELSE <<Text(text)>>)
                    EXCEPT !.href = "url"]
        ins == InsertAt(DeleteContents(d, s), s.sp, s.so, <<link>>)
    IN  [doc |-> ins.doc, sel |-> Caret(ins.parent, ins.idx)]

\* removeLink putting an empty text node in the place of the link
removeLinkEmptying(d, s) ==
    LET link == NearestAncestor(d, s.sp, {"A"})
    IN  IF link = <<>> THEN [doc |-> d, sel |-> s]
        ELSE [doc |-> ReplaceNode(d, link, Text(<<>>)),
              sel |-> Caret(Front(link), Last(link) - 1)]

removeLink(d, s) ==
    LET link == NearestAncestor(d, s.sp, {"A"})
    IN  IF link = <<>> THEN [doc |-> d, sel |-> s]
        ELSE [doc |-> ReplaceNode(d, link, Text(TextContent(NodeAt(Root(d), link)))),
              sel |-> Caret(Front(link), Last(link) - 1)]

\* the natural size at which a new image is displayed
NaturalWidth == 400
NaturalHeight == 200

insertImage(d, s) ==
    LET p == Elem("P", <<Elem("IMG", <<>>)>>)
        ins == InsertAt(d, s.sp, s.so, <<p>>)
    IN  [doc |-> ins.doc, sel |-> Caret(ins.parent, ins.idx)]

\* the attributes an allowed element keeps
allowedAttrs == {"href", "src", "alt", "style", "class", "target", "rel",
                 "data-editor-image"}

\* the style mapping rebuilt from the allowed properties, in their order
FilterStyle(style) ==
    LET keep == SelectSeq(allowedStyles, LAMBDA prop : StyleValue(style, prop) # "")
    IN  [i \in 1..Len(keep) |-> <<keep[i], StyleValue(style, keep[i])>>]

\* the recursive sanitize(node) of sanitizeHTML, on the children of node
RECURSIVE sanitize(_)
sanitize(ks) ==
    [i \in 1..Len(ks) |->
        LET el == ks[i]
        IN  IF IsText(el) THEN el
            ELSE IF el.tag \notin ALLOWED_TAGS
                 THEN [Elem(IF el.tag \in blockTags THEN "P" ELSE "SPAN",
                            sanitize(CopyMarkup(el.kids)))
                          EXCEPT !.style = el.style]
                 ELSE [el EXCEPT !.other = @ \cap allowedAttrs,
                                 !.style = FilterStyle(@), !.kids = sanitize(@)]]

\* sanitizeHTML(html): parse, sanitize the body, read the markup back
sanitizeHTML(html) == Serialize(sanitize(Parse(html)))

\* handlePaste inserting the markup as it comes from the clipboard
handlePasteUnsanitized(d, s, data) ==
    LET cut == DeleteContents(d, s)
    IN  IF data.html # <<>>
        THEN LET nodes == Parse(data.html)
                 ins == InsertAt(cut, s.sp, s.so, nodes)
             IN  [doc |-> ins.doc,
                  sel |-> Range(s.sp, s.so, ins.parent, ins.idx - 1 + Len(nodes))]
        ELSE IF data.text # <<>>
             THEN LET ins == InsertAt(cut, s.sp, s.so, <<Text(data.text)>>)
                  IN  [doc |-> ins.doc, sel |-> Caret(ins.parent, ins.idx)]
             ELSE [doc |-> cut, sel |-> Caret(s.sp, s.so)]

\* handlePaste after its saveHistory call, on a selection with a range
handlePaste(d, s, data) ==
    LET cut == DeleteContents(d, s)
    IN  IF data.html # <<>>
        THEN LET nodes == Parse(sanitizeHTML(data.html))
                 ins == InsertAt(cut, s.sp, s.so, nodes)
             IN  [doc |-> ins.doc,
                  sel |-> Range(s.sp, s.so, ins.parent, ins.idx - 1 + Len(nodes))]
        ELSE IF data.text # <<>>
             THEN LET ins == InsertAt(cut, s.sp, s.so, <<Text(data.text)>>)
                  IN  [doc |-> ins.doc, sel |-> Caret(ins.parent, ins.idx)]
             ELSE [doc |-> cut, sel |-> Caret(s.sp, s.so)]

(***************************************************************************)
(* RichTextEditor: the image that selectedImage holds.                     *)
(***************************************************************************)
\* the path of the node selectedImage refers to, <<>> when that node is
\* no longer in the document
HeldPath(d) ==
    LET hits == { q \in DocPaths(d) : NodeAt(Root(d), q).held }
    IN  IF hits = {} THEN <<>> ELSE CHOOSE q \in hits : TRUE

ImagePaths(d) == { q \in DocPaths(d) : NodeAt(Root(d), q).tag = "IMG" }

\* allImages.forEach(i => i.classList.remove('image-selected'))
RECURSIVE ClearMarks(_)
ClearMarks(ks) ==
    [i \in 1..Len(ks) |->
        [ks[i] EXCEPT !.cls = FALSE, !.held = FALSE, !.kids = ClearMarks(@)]]

\* img.getBoundingClientRect(): a detached image has an empty rectangle
ImageRect(d) ==
    IF HeldPath(d) = <<>> THEN [width |-> 0, height |-> 0]
    ELSE LET img == NodeAt(Root(d), HeldPath(d))
         IN  IF img.w = 0 THEN [width |-> NaturalWidth, height |-> NaturalHeight]
             ELSE [width |-> img.w, height |-> img.h]

(***************************************************************************)
(* History variables.                                                      *)
(***************************************************************************)
NoRun == [pres |-> <<>>, undone |-> 0]
NoBurst == [base |-> <<>>, k |-> 0, len0 |-> 0, live |-> FALSE]

\* the snapshots of a stack, oldest first
Htmls(stack) == [i \in 1..Len(stack) |-> stack[i].html]

\* a Command Engine operation: didRun, it got past its precondition;
\* saved, it called saveHistory.  The operation is a mutating command
\* when it changed the document.
GhostCmd(name, didRun, saved) ==
    /\ op' = IF didRun \/ saved THEN name ELSE "noop"
    /\ ran' = didRun
    /\ pre' = IF didRun THEN InnerHTML(doc) ELSE <<>>
    /\ preStack' = <<>>
    /\ run' = IF didRun /\ doc' # doc
              THEN IF run.undone = 0
                   THEN [run EXCEPT !.pres = Append(@, InnerHTML(doc))]
                   ELSE [pres |-> <<InnerHTML(doc)>>, undone |-> 0]
              ELSE IF didRun \/ saved THEN NoRun ELSE run
    /\ burst' = IF didRun /\ doc' # doc
                THEN IF burst.live /\ sinceCmd < DEBOUNCE_MS
                     THEN [burst EXCEPT !.k = @ + 1]
                     ELSE [base |-> InnerHTML(doc), k |-> 1,
                           len0 |-> Len(undoStack), live |-> TRUE]
                ELSE IF didRun \/ saved THEN NoBurst ELSE burst
    /\ sinceCmd' = IF didRun /\ doc' # doc THEN 0
                   ELSE IF didRun \/ saved THEN DEBOUNCE_MS ELSE sinceCmd
    /\ cursorFailed' = FALSE
    /\ steps' = steps + 1
    /\ UNCHANGED <<allPushed, call>>

\* any other handler; mutates, it changes the document
GhostOther(name, mutates) ==
    /\ op' = name
    /\ ran' = TRUE
    /\ pre' = IF mutates THEN InnerHTML(doc) ELSE <<>>
    /\ preStack' = <<>>
    /\ run' = NoRun
    /\ burst' = NoBurst
    /\ sinceCmd' = DEBOUNCE_MS
    /\ cursorFailed' = FALSE
    /\ steps' = steps + 1
    /\ UNCHANGED <<allPushed, call>>

\* undo or redo; acted, its stack was not empty; failed, a cursor path of
\* the restored entry did not resolve
GhostRestore(name, acted, failed) ==
    /\ op' = name
    /\ ran' = acted
    /\ pre' = IF acted THEN InnerHTML(doc) ELSE <<>>
    /\ preStack' = IF acted THEN Htmls(undoStack) ELSE <<>>
    /\ run' = IF name = "undo" /\ run.undone < Len(run.pres)
              THEN [run EXCEPT !.undone = @ + 1]
              ELSE NoRun
    /\ burst' = NoBurst
    /\ sinceCmd' = DEBOUNCE_MS
    /\ cursorFailed' = failed
    /\ steps' = steps + 1
    /\ UNCHANGED <<allPushed, call>>

\* time, a flag reset or a new selection: the last handler is over
GhostEnv ==
    /\ op' = "idle"
    /\ ran' = FALSE
    /\ pre' = <<>>
    /\ preStack' = <<>>
    /\ cursorFailed' = FALSE
    /\ steps' = steps + 1
    /\ UNCHANGED <<run, burst, allPushed, call>>

\* the debounce timer fired; pushed, its saveHistory call pushed an entry
GhostTimer(pushed) ==
    /\ op' = "timer"
    /\ ran' = pushed
    /\ pre' = <<>>
    /\ preStack' = <<>>
    /\ cursorFailed' = FALSE
    /\ steps' = steps + 1
    /\ UNCHANGED <<run, burst, sinceCmd, allPushed, call>>

(***************************************************************************)
(* Bounds on the environment.                                              *)
(***************************************************************************)
CanStep == steps < MaxSteps

\* blocks nested in an inline element inside a paragraph are not modelled
RECURSIVE HasBlock(_)
HasBlock(ks) == \E i \in 1..Len(ks) : ks[i].tag \in ClosesP \/ HasBlock(ks[i].kids)

RECURSIVE Supported(_)
Supported(ks) ==
    \A i \in 1..Len(ks) :
        /\ Supported(ks[i].kids)
        /\ ks[i].tag = "P" =>
              \A j \in 1..Len(ks[i].kids) :
                  ks[i].kids[j].tag \notin ClosesP => ~HasBlock(ks[i].kids[j].kids)

\* the ranges the user selects: the last character of a text node
TextPaths(d) == { q \in DocPaths(d) : /\ IsText(NodeAt(Root(d), q))
                                      /\ NodeAt(Root(d), q).text # <<>> }

UserRanges(d) ==
    { Range(p, Len(NodeAt(Root(d), p).text) - 1, p, Len(NodeAt(Root(d), p).text)) :
         p \in TextPaths(d) }

(***************************************************************************)
(* The initial state: the editor mounted with initialValue                 *)
(* "<p>ab</p><p><img></p>", the user's selection nowhere or already placed *)
(* in the text.                                                            *)
(***************************************************************************)
InitialValue == <<Elem("P", <<Text(<<"a", "b">>)>>), Elem("P", <<Elem("IMG", <<>>)>>)>>

NoResize == [x |-> 0, width |-> 0, height |-> 0, set |-> FALSE]

\* the hooks' state when the editor has mounted
InitHooks ==
    /\ undoStack = <<>>
    /\ redoStack = <<>>
    /\ isUndoRedoing = FALSE
    /\ sinceSave = DEBOUNCE_MS
    /\ debounceTimeout = NoTimer
    /\ timers = <<>>
    /\ resetTimers = 0
    /\ selectedImage = "none"
    /\ isResizing = FALSE
    /\ resizeStartData = NoResize
    /\ editorAttached = TRUE

InitProgram ==
    /\ sel \in {NoRange} \cup UserRanges(Parse(InitialValue))
    /\ InitHooks

InitGhost ==
    /\ op = "init"
    /\ ran = FALSE
    /\ pre = <<>>
    /\ preStack = <<>>
    /\ run = NoRun
    /\ burst = NoBurst
    /\ sinceCmd = DEBOUNCE_MS
    /\ cursorFailed = FALSE
    /\ allPushed = <<>>
    /\ steps = 0

\* no function has been applied on its own
NoCall == [fn |-> "none", arg |-> <<>>, res |-> <<>>, prev |-> <<>>]

Init == doc = Parse(InitialValue) /\ InitProgram /\ InitGhost /\ call = NoCall

(***************************************************************************)
(* The environment: time, timers, the user's selection.                    *)
(***************************************************************************)
\* d ms pass; a due timer fires before time goes on
Tick(d) ==
    /\ CanStep
    /\ resetTimers = 0
    /\ debounceTimeout # 0
    /\ sinceSave < DEBOUNCE_MS \/ debounceTimeout # NoTimer
    /\ LET step == IF debounceTimeout = NoTimer THEN d ELSE Min(d, debounceTimeout)
       IN  /\ sinceSave' = Min(sinceSave + step, DEBOUNCE_MS)
           /\ sinceCmd' = IF burst.live THEN Min(sinceCmd + step, DEBOUNCE_MS) ELSE sinceCmd
           /\ debounceTimeout' = IF debounceTimeout = NoTimer THEN NoTimer
                                 ELSE debounceTimeout - step
           /\ timers' = [i \in 1..Len(timers) |-> timers[i] - step]
    /\ GhostEnv
    /\ UNCHANGED <<doc, sel, undoStack, redoStack, isUndoRedoing, resetTimers,
                   selectedImage, isResizing, resizeStartData, editorAttached>>

Select ==
    /\ CanStep
    /\ \E r \in UserRanges(doc) : sel' = r
    /\ sel' # sel
    /\ GhostEnv
    /\ UNCHANGED <<doc, undoStack, redoStack, isUndoRedoing, sinceSave,
                   debounceTimeout, timers, resetTimers, selectedImage, isResizing,
                   resizeStartData, editorAttached, sinceCmd>>

(***************************************************************************)
(* useHistoryStack: the handlers.                                          *)
(***************************************************************************)
\* the trailing debounce timer fires: () => saveHistory()
FireDebounce ==
    /\ CanStep
    /\ debounceTimeout = 0
    /\ SetHist(saveHistory([Hist EXCEPT !.debounceTimeout = NoTimer,
                                          !.timers = clearTimeout(@, 0)], doc, sel))
    /\ GhostTimer(SavePushes(Hist))
    /\ UNCHANGED <<doc, sel, isUndoRedoing, resetTimers, selectedImage,
                   isResizing, resizeStartData, editorAttached>>

\* setTimeout(() => { isUndoRedoing.current = false }, 0)
ResetFlag ==
    /\ CanStep
    /\ resetTimers > 0
    /\ resetTimers' = resetTimers - 1
    /\ isUndoRedoing' = FALSE
    /\ GhostEnv
    /\ UNCHANGED <<doc, sel, undoStack, redoStack, sinceSave, debounceTimeout, timers,
                   selectedImage, isResizing, resizeStartData, editorAttached,
                   sinceCmd>>

\* the program state after undo(), as a record
undo(d, s, us, rs) ==
    IF us = <<>>
    THEN [acted |-> FALSE, doc |-> d, sel |-> s, undoStack |-> us, redoStack |-> rs]
    ELSE LET currentEntry == HistoryEntry(d, s)
             previousEntry == Last(us)
             newDoc == Parse(previousEntry.html)
         IN  [acted |-> TRUE,
              doc |-> newDoc,
              sel |-> restoreCursorPosition(previousEntry.cursorPosition, newDoc,
                                            SelAfterReplaceAll(s)),
              undoStack |-> Front(us),
              redoStack |-> Append(rs, currentEntry)]

\* redo leaving the entry it restores on the redo stack
redoKeeping(d, s, us, rs) ==
    IF rs = <<>>
    THEN [acted |-> FALSE, doc |-> d, sel |-> s, undoStack |-> us, redoStack |-> rs]
    ELSE LET currentEntry == HistoryEntry(d, s)
             nextEntry == Last(rs)
             newDoc == Parse(nextEntry.html)
         IN  [acted |-> TRUE,
              doc |-> newDoc,
              sel |-> restoreCursorPosition(nextEntry.cursorPosition, newDoc,
                                            SelAfterReplaceAll(s)),
              undoStack |-> Append(us, currentEntry),
              redoStack |-> rs]

redo(d, s, us, rs) ==
    IF rs = <<>>
    THEN [acted |-> FALSE, doc |-> d, sel |-> s, undoStack |-> us, redoStack |-> rs]
    ELSE LET currentEntry == HistoryEntry(d, s)
             nextEntry == Last(rs)
             newDoc == Parse(nextEntry.html)
         IN  [acted |-> TRUE,
              doc |-> newDoc,
              sel |-> restoreCursorPosition(nextEntry.cursorPosition, newDoc,
                                            SelAfterReplaceAll(s)),
              undoStack |-> Append(us, currentEntry),
              redoStack |-> Front(rs)]

\* the flag raised without its deferred reset being scheduled
RestoreProgramNoReset(r) ==
    /\ doc' = r.doc
    /\ sel' = r.sel
    /\ undoStack' = r.undoStack
    /\ redoStack' = r.redoStack
    /\ isUndoRedoing' = (isUndoRedoing \/ r.acted)
    /\ resetTimers' = resetTimers

\* the flag raised and its reset scheduled before the stack is looked at
RestoreProgramFlagFirst(r) ==
    /\ doc' = r.doc
    /\ sel' = r.sel
    /\ undoStack' = r.undoStack
    /\ redoStack' = r.redoStack
    /\ isUndoRedoing' = TRUE
    /\ resetTimers' = resetTimers + 1

\* the program variables after undo() or redo() returned r
RestoreProgram(r) ==
    /\ doc' = r.doc
    /\ sel' = r.sel
    /\ undoStack' = r.undoStack
    /\ redoStack' = r.redoStack
    /\ isUndoRedoing' = (isUndoRedoing \/ r.acted)
    /\ resetTimers' = IF r.acted THEN resetTimers + 1 ELSE resetTimers

Restore(name, r, target) ==
    /\ RestoreProgram(r)
    /\ GhostRestore(name, r.acted,
                    r.acted /\ ~Last(target).cursorPosition.null
                            /\ ~CursorResolves(Last(target).cursorPosition, r.doc))
    /\ UNCHANGED <<sinceSave, debounceTimeout, timers, selectedImage, isResizing,
                   resizeStartData, editorAttached>>

Undo ==
    /\ CanStep
    /\ Restore("undo", undo(doc, sel, undoStack, redoStack), undoStack)

Redo ==
    /\ CanStep
    /\ Restore("redo", redo(doc, sel, undoStack, redoStack), redoStack)

(***************************************************************************)
(* RichTextEditor: setHTML and blur.                                       *)
(***************************************************************************)


SetHTML ==
    /\ CanStep
    /\ \E html \in { <<Elem("P", <<Text(<<"c">>)>>)>> } :
          /\ doc' = Parse(html)
          /\ sel' = SelAfterReplaceAll(sel)
          /\ SetHist(saveHistory(Hist, doc', sel'))
    /\ GhostOther("setHTML", TRUE)
    /\ UNCHANGED <<isUndoRedoing, resetTimers, selectedImage, isResizing,
                   resizeStartData, editorAttached>>

HandleBlur ==
    /\ CanStep
    /\ SetHist(saveHistory(Hist, doc, sel))
    /\ GhostOther("blur", FALSE)
    /\ UNCHANGED <<doc, sel, isUndoRedoing, resetTimers, selectedImage,
                   isResizing, resizeStartData, editorAttached>>

(***************************************************************************)
(* useEditorCommands: the operations as handlers.                          *)
(***************************************************************************)
\* an operation that returns early unless didRun, else calls saveHistory()
\* and then changes the document and the selection to result
Command(name, didRun, result) ==
    /\ SupportedSel(doc, sel)
    /\ IF didRun
       THEN /\ SetHist(saveHistory(Hist, doc, sel))
            /\ doc' = result.doc
            /\ sel' = result.sel
            /\ Supported(doc')
       ELSE UNCHANGED <<doc, sel, undoStack, redoStack, sinceSave, debounceTimeout, timers>>
    /\ GhostCmd(name, didRun, didRun)
    /\ UNCHANGED <<isUndoRedoing, resetTimers, selectedImage, isResizing,
                   resizeStartData, editorAttached>>

HasRange == sel.rangeCount = 1
HasSpan == sel.rangeCount = 1 /\ ~IsCollapsed(sel)

ToggleInlineStyle ==
    /\ CanStep
    /\ \E tagName \in {"B"} :
          Command("toggleInlineStyle", HasSpan, toggleInlineStyle(doc, sel, tagName))

SetBlockType ==
    /\ CanStep
    /\ \E tagName \in {"H1"} :
          Command("setBlockType", HasRange, setBlockType(doc, sel, tagName))

ToggleList ==
    /\ CanStep
    /\ \E listType \in {"UL"} :
          Command("toggleList", HasRange, toggleList(doc, sel, listType))

InsertLink ==
    /\ CanStep
    /\ \E url \in { <<"u">> } :
          Command("insertLink", HasRange, insertLink(doc, sel, url))

RemoveLink ==
    /\ CanStep
    /\ Command("removeLink", HasRange, removeLink(doc, sel))

\* setFontSize, setFontFamily, setTextColor, setBackgroundColor
SetStyleCommand ==
    /\ CanStep
    /\ \E st \in { <<"color", "red">> } :
          Command("setTextColor", HasSpan, wrapSelectionWithSpan(doc, sel, st[1], st[2]))

InsertImage ==
    /\ CanStep
    /\ Command("insertImage", HasRange, insertImage(doc, sel))



\* handlePaste calls saveHistory() before it looks for a range
HandlePaste ==
    /\ CanStep
    /\ SupportedSel(doc, sel)
    /\ SetHist(saveHistory(Hist, doc, sel))
    /\ IF HasRange
       THEN \E data \in { [html |-> <<>>, text |-> <<"x">>],
                        [html |-> <<Elem("B", <<Text(<<"x">>)>>)>>, text |-> <<"x">>],
                        [html |-> <<Elem("FONT", <<Text(<<"x">>)>>)>>, text |-> <<"x">>],
                        [html |-> <<[Elem("IMG", <<>>) EXCEPT !.cls = TRUE]>>,
                         text |-> <<>>] } :
               /\ doc' = handlePaste(doc, sel, data).doc
               /\ sel' = handlePaste(doc, sel, data).sel
               /\ Supported(doc')
       ELSE UNCHANGED <<doc, sel>>
    /\ GhostCmd("handlePaste", HasRange, TRUE)
    /\ UNCHANGED <<isUndoRedoing, resetTimers, selectedImage, isResizing,
                   resizeStartData, editorAttached>>

CommandNames == {"toggleInlineStyle", "setBlockType", "toggleList", "insertLink",
                 "removeLink", "setTextColor", "insertImage", "handlePaste"}

(***************************************************************************)
(* RichTextEditor: the image handlers.                                     *)
(***************************************************************************)
\* handleEditorClick on an image
ClickImage ==
    /\ CanStep
    /\ \E q \in ImagePaths(doc) :
          doc' = ReplaceNode(ClearMarks(doc), q,
                     [NodeAt(Root(doc), q) EXCEPT !.cls = TRUE, !.held = TRUE])
    /\ selectedImage' = "held"
    /\ doc' # doc
    /\ GhostOther("click", FALSE)
    /\ UNCHANGED <<sel, undoStack, redoStack, isUndoRedoing, sinceSave,
                   debounceTimeout, timers, resetTimers, isResizing, resizeStartData,
                   editorAttached>>

\* handleEditorClick anywhere else
ClickElsewhere ==
    /\ CanStep
    /\ selectedImage = "held"
    /\ doc' = IF HeldPath(doc) = <<>> THEN doc
              ELSE ReplaceNode(doc, HeldPath(doc),
                       [NodeAt(Root(doc), HeldPath(doc)) EXCEPT !.cls = FALSE, !.held = FALSE])
    /\ selectedImage' = "none"
    /\ GhostOther("click", FALSE)
    /\ UNCHANGED <<sel, undoStack, redoStack, isUndoRedoing, sinceSave,
                   debounceTimeout, timers, resetTimers, isResizing, resizeStartData,
                   editorAttached>>

\* handleKeyDown, Backspace with an image selected: the image's parent is
\* removed, then saveHistory() is called
BackspaceImage ==
    /\ CanStep
    /\ selectedImage = "held"
    /\ LET img == HeldPath(doc)
           parent == Front(img)
       IN  IF img = <<>>
           THEN UNCHANGED <<doc, sel, editorAttached>>
           ELSE IF parent = <<>>
                THEN editorAttached' = FALSE /\ UNCHANGED <<doc, sel>>
                ELSE /\ doc' = SpliceKids(doc, Front(parent), Last(parent), 1, <<>>)
                     /\ sel' = SelAfterRemoved(sel, Front(parent), Last(parent))
                     /\ UNCHANGED editorAttached
    /\ selectedImage' = "none"
    /\ SetHist(saveHistory(Hist, doc', sel'))
    /\ GhostOther("backspace", TRUE)
    /\ UNCHANGED <<isUndoRedoing, resetTimers, isResizing, resizeStartData>>

\* handleKeyDown, Delete with an image selected: no branch of the handler
\* is for this key, the image branch tests e.key === 'Backspace' only
DeleteKeyImage ==
    /\ CanStep
    /\ selectedImage = "held"
    /\ GhostOther("delete", FALSE)
    /\ UNCHANGED <<doc, sel, undoStack, redoStack, isUndoRedoing, sinceSave,
                   debounceTimeout, timers, resetTimers, selectedImage, isResizing,
                   resizeStartData, editorAttached>>

\* handleResizeMouseDown(e, corner) on a corner handle, the pointer at
\* x = 0; the handler does not keep the corner, call records it
ResizeMouseDown ==
    /\ CanStep
    /\ selectedImage = "held"
    /\ ~isResizing
    /\ isResizing' = TRUE
    /\ resizeStartData' = [x |-> 0, width |-> ImageRect(doc).width,
                           height |-> ImageRect(doc).height, set |-> TRUE]
    /\ \E corner \in {"bottom-right", "bottom-left", "top-right", "top-left"} :
          call' = [NoCall EXCEPT !.fn = "handleResizeMouseDown", !.arg = <<corner>>]
    /\ op' = "mousedown"
    /\ ran' = TRUE
    /\ pre' = <<>>
    /\ preStack' = <<>>
    /\ run' = NoRun
    /\ burst' = NoBurst
    /\ sinceCmd' = DEBOUNCE_MS
    /\ cursorFailed' = FALSE
    /\ steps' = steps + 1
    /\ UNCHANGED <<doc, sel, undoStack, redoStack, isUndoRedoing, sinceSave,
                   debounceTimeout, timers, resetTimers, selectedImage, editorAttached,
                   allPushed>>



\* the size handleResizeMouseMove gives the image, without the constraint
\* to the minimal and maximal width
newSizeUnconstrained(start, clientX) ==
    LET deltaX == clientX - start.x
        newWidth == start.width + deltaX
    IN  [w |-> newWidth, h |-> (newWidth * start.height) \div start.width]

\* the size handleResizeMouseMove gives the image: newWidth and
\* newHeight = newWidth / aspectRatio, aspectRatio being width / height
\* of the rectangle recorded at pointer-down
newSize(start, clientX) ==
    LET deltaX == clientX - start.x
        newWidth == Max(MIN_IMAGE_WIDTH, Min(MAX_IMAGE_WIDTH, start.width + deltaX))
    IN  [w |-> newWidth, h |-> (newWidth * start.height) \div start.width]

\* handleResizeMouseMove with the pointer at clientX
ResizeMouseMove ==
    /\ CanStep
    /\ isResizing /\ selectedImage = "held" /\ resizeStartData.set
    /\ \E clientX \in {100, -500, 900} :
          doc' = IF HeldPath(doc) = <<>> \/ resizeStartData.width = 0 THEN doc
                 ELSE ReplaceNode(doc, HeldPath(doc),
                          [NodeAt(Root(doc), HeldPath(doc)) EXCEPT
                              !.w = newSize(resizeStartData, clientX).w,
                              !.h = newSize(resizeStartData, clientX).h])
    /\ op' = "mousemove"
    /\ ran' = TRUE
    /\ pre' = IF op = "mousemove" THEN pre ELSE InnerHTML(doc)
    /\ preStack' = <<>>
    /\ run' = NoRun
    /\ burst' = NoBurst
    /\ sinceCmd' = DEBOUNCE_MS
    /\ cursorFailed' = FALSE
    /\ steps' = steps + 1
    /\ UNCHANGED <<sel, undoStack, redoStack, isUndoRedoing, sinceSave,
                   debounceTimeout, timers, resetTimers, selectedImage, isResizing,
                   resizeStartData, editorAttached, allPushed, call>>

\* handleResizeMouseUp: the gesture ends, then saveHistory() is called
ResizeMouseUp ==
    /\ CanStep
    /\ isResizing
    /\ isResizing' = FALSE
    /\ resizeStartData' = NoResize
    /\ SetHist(saveHistory(Hist, doc, sel))
    /\ op' = "mouseup"
    /\ ran' = (op = "mousemove")
    /\ pre' = IF op = "mousemove" THEN pre ELSE <<>>
    /\ preStack' = <<>>
    /\ run' = NoRun
    /\ burst' = NoBurst
    /\ sinceCmd' = DEBOUNCE_MS
    /\ cursorFailed' = FALSE
    /\ steps' = steps + 1
    /\ call' = NoCall
    /\ UNCHANGED <<doc, sel, isUndoRedoing, resetTimers, selectedImage,
                   editorAttached, allPushed>>

Next ==
    \/ \E d \in {TickStep, DEBOUNCE_MS} : Tick(d)
    \/ Select
    \/ FireDebounce
    \/ ResetFlag
    \/ Undo
    \/ Redo
    \/ SetHTML
    \/ HandleBlur
    \/ ToggleInlineStyle
    \/ SetBlockType
    \/ ToggleList
    \/ InsertLink
    \/ RemoveLink
    \/ SetStyleCommand
    \/ InsertImage
    \/ HandlePaste
    \/ ClickImage
    \/ ClickElsewhere
    \/ BackspaceImage
    \/ DeleteKeyImage
    \/ ResizeMouseDown
    \/ ResizeMouseMove
    \/ ResizeMouseUp

Spec == Init /\ [][Next]_vars

(***************************************************************************)
(* The history-bound specification: setHTML with ever new content, at      *)
(* least DEBOUNCE_MS apart, and undo/redo over the history so built.       *)
(***************************************************************************)
BoundFrame == UNCHANGED <<pre, preStack, run, burst, sinceCmd, cursorFailed, call>>

\* setHTML(html) with content never seen before
BoundSetHTML ==
    /\ steps < MaxPushes
    /\ redoStack = <<>> /\ ~isUndoRedoing /\ sinceSave = DEBOUNCE_MS
    /\ doc' = Parse(<<Elem("P", <<Text(<<ToString(steps + 1)>>)>>)>>)
    /\ sel' = SelAfterReplaceAll(sel)
    /\ SetHist(saveHistory(Hist, doc', sel'))
    /\ allPushed' = IF SavePushes(Hist) THEN Append(allPushed, InnerHTML(doc'))
                    ELSE allPushed
    /\ op' = "setHTML" /\ ran' = TRUE /\ steps' = steps + 1
    /\ BoundFrame
    /\ UNCHANGED <<isUndoRedoing, resetTimers, selectedImage, isResizing,
                   resizeStartData, editorAttached>>

\* DEBOUNCE_MS pass
BoundTick ==
    /\ resetTimers = 0 /\ sinceSave < DEBOUNCE_MS
    /\ sinceSave' = DEBOUNCE_MS
    /\ op' = "idle" /\ ran' = FALSE
    /\ BoundFrame
    /\ UNCHANGED <<doc, sel, undoStack, redoStack, isUndoRedoing, debounceTimeout, timers,
                   resetTimers, selectedImage, isResizing, resizeStartData,
                   editorAttached, allPushed, steps>>

BoundRestore(name, r) ==
    /\ resetTimers = 0
    /\ RestoreProgram(r)
    /\ op' = name /\ ran' = r.acted
    /\ BoundFrame
    /\ UNCHANGED <<sinceSave, debounceTimeout, timers, selectedImage, isResizing,
                   resizeStartData, editorAttached, allPushed, steps>>

BoundUndo == BoundRestore("undo", undo(doc, sel, undoStack, redoStack))

BoundRedo == BoundRestore("redo", redo(doc, sel, undoStack, redoStack))

BoundResetFlag ==
    /\ resetTimers > 0
    /\ resetTimers' = resetTimers - 1
    /\ isUndoRedoing' = FALSE
    /\ op' = "idle" /\ ran' = FALSE
    /\ BoundFrame
    /\ UNCHANGED <<doc, sel, undoStack, redoStack, sinceSave, debounceTimeout, timers,
                   selectedImage, isResizing, resizeStartData, editorAttached,
                   allPushed, steps>>

NextBound ==
    \/ BoundSetHTML
    \/ BoundTick
    \/ BoundUndo
    \/ BoundRedo
    \/ BoundResetFlag

SpecBound == Init /\ [][NextBound]_vars

(***************************************************************************)
(* The sanitizer specification: sanitizeHTML applied to pasted markup,     *)
(* and once more to its own result.                                        *)
(***************************************************************************)
\* everything but call
CallFrame ==
    UNCHANGED <<doc, sel, undoStack, redoStack, isUndoRedoing, sinceSave,
                debounceTimeout, timers, resetTimers, selectedImage, isResizing,
                resizeStartData, editorAttached, op, ran, pre, preStack, run,
                burst, sinceCmd, cursorFailed, allPushed, steps>>

Mk(tag, style, other, kids) == [Elem(tag, kids) EXCEPT !.style = style, !.other = other]

\* the pasted markup, as the parser can have produced it: one element
\* around text, one element around another, a table of one row
InitSanitize ==
    LET tags == {"FONT", "SECTION", "DIV", "SPAN", "P"}
        styles == { <<>>, << <<"color", "red">> >>, << <<"position", "fixed">> >>,
                    << <<"position", "fixed">>, <<"color", "red">> >> }
        attrs == { {}, {"onclick"}, {"class", "id"} }
        leaves == { <<Text(<<"H", "i">>)>>,
                    <<Text(<<"a">>), Elem("B", <<Text(<<"b">>)>>)>> }
        flat == { <<Mk(t, st, at, ks)>> : t \in tags, st \in styles,
                                          at \in attrs, ks \in leaves }
        nested == { <<Mk(t, st, {}, <<Mk(u, su, {}, <<Text(<<"H", "i">>)>>)>>)>> :
                       t \in tags, st \in styles, u \in tags, su \in styles }
        table == <<Elem("TABLE", <<Elem("TBODY", <<Elem("TR",
                     <<Elem("TD", <<Text(<<"a">>)>>),
                       Elem("TD", <<Text(<<"b">>)>>)>>)>>)>>)>>
    IN  /\ doc = Parse(InitialValue) /\ InitProgram /\ sel = NoRange /\ InitGhost
        /\ call \in { [NoCall EXCEPT !.arg = x] :
                         x \in { y \in flat \cup nested \cup {table} : Parse(y) = y } }

\* sanitizeHTML(html)
Sanitize ==
    /\ call.fn = "none"
    /\ call' = [call EXCEPT !.fn = "sanitizeHTML", !.res = sanitizeHTML(call.arg)]
    /\ CallFrame

\* sanitizeHTML(sanitizeHTML(html))
SanitizeAgain ==
    /\ call.fn = "sanitizeHTML"
    /\ call' = [call EXCEPT !.fn = "sanitizeHTML twice", !.prev = call.res,
                            !.res = sanitizeHTML(call.res)]
    /\ CallFrame

NextSanitize == Sanitize \/ SanitizeAgain

SpecSanitize == InitSanitize /\ [][NextSanitize]_vars

(***************************************************************************)
(* The style specification: setTextColor and setFontSize on documents      *)
(* that hold styled spans already, under every selection inside a block    *)
(* that lies in one text node or spans whole children of one element.      *)
(***************************************************************************)
\* documents with styled spans and a styled block; the non-collapsed
\* ranges inside one node below the root
InitStyle ==
    /\ doc \in
          { <<Elem("P", <<Text(<<"a", "b", "c">>)>>)>>,
            <<Elem("P", <<Text(<<" ", " ">>)>>)>>,
            <<Elem("P", <<Text(<<"a">>),
                          Mk("SPAN", << <<"color", "blue">> >>, {}, <<Text(<<"b", "c">>)>>),
                          Text(<<"d">>)>>)>>,
            <<Elem("P", <<Text(<<"a">>),
                          Elem("B", <<Mk("SPAN", << <<"color", "blue">> >>, {},
                                         <<Text(<<"b">>)>>)>>),
                          Text(<<"c">>)>>)>>,
            <<Mk("P", << <<"color", "blue">> >>, {},
                 <<Text(<<"a">>),
                   Elem("B", <<Mk("SPAN", << <<"color", "red">> >>, {},
                                  <<Text(<<"b">>)>>)>>),
                   Text(<<"c">>)>>)>>,
            <<Elem("P", <<Text(<<"a">>),
                          Mk("SPAN", << <<"font-weight", "bold">> >>, {}, <<Text(<<"b">>)>>),
                          Text(<<"c">>)>>)>>,
            <<Mk("P", << <<"color", "blue">> >>, {}, <<Text(<<"a">>), Elem("IMG", <<>>)>>),
              Elem("P", <<Elem("BR", <<>>)>>)>> }
    /\ sel \in UNION { UNION { { Range(p, i, p, j) : i \in 0..(j - 1) } :
                                  j \in 1..NodeLength(NodeAt(Root(doc), p)) } :
                          p \in DocPaths(doc) }
    /\ InitHooks
    /\ InitGhost /\ call = NoCall

\* setFontSize(size)
SetFontSize ==
    /\ CanStep
    /\ Command("setFontSize", HasSpan, wrapSelectionWithSpan(doc, sel, "font-size", "12px"))

NextStyle == SetStyleCommand \/ SetFontSize \/ ToggleInlineStyle

SpecStyle == InitStyle /\ [][NextStyle]_vars

(***************************************************************************)
(* The list specification: toggleList of either kind on a paragraph, on    *)
(* flat lists and on a list nested in an item of a list of the other kind, *)
(* with the cursor at any place in the text.                               *)
(***************************************************************************)
\* a paragraph, flat lists and nested lists; the cursor anywhere in a
\* text node
InitList ==
    /\ doc \in
          { <<Elem("P", <<Text(<<"I", "t">>)>>)>>,
            <<Elem("UL", <<Elem("LI", <<Text(<<"a">>)>>), Elem("LI", <<Text(<<"b">>)>>)>>)>>,
            <<Elem("OL", <<Elem("LI", <<Text(<<"a">>)>>), Elem("LI", <<Text(<<"b">>)>>)>>)>>,
            <<Elem("UL", <<Elem("LI", <<Text(<<"a">>),
                              Elem("OL", <<Elem("LI", <<Text(<<"b">>)>>)>>)>>)>>)>>,
            <<Elem("OL", <<Elem("LI", <<Text(<<"a">>),
                              Elem("UL", <<Elem("LI", <<Text(<<"b">>)>>)>>)>>)>>)>>,
            <<Elem("UL", <<Elem("LI", <<Elem("B", <<Text(<<"a">>)>>)>>)>>),
              Elem("P", <<Text(<<"c">>)>>)>> }
    /\ sel \in UNION { { Caret(p, i) : i \in 0..Len(NodeAt(Root(doc), p).text) } :
                          p \in TextPaths(doc) }
    /\ InitHooks
    /\ InitGhost /\ call = NoCall

\* the name under which toggleList(listType) is recorded
ListOp(listType) == IF listType = "UL" THEN "toggleList" ELSE "toggleList(OL)"

\* toggleList('OL')
ToggleOrdered ==
    /\ CanStep
    /\ Command(ListOp("OL"), HasRange, toggleList(doc, sel, "OL"))

NextList == ToggleList \/ ToggleOrdered

SpecList == InitList /\ [][NextList]_vars

(***************************************************************************)
(* The timer specification: the editor after blur has saved the initial    *)
(* content, either DEBOUNCE_MS ago or just now with a second blur whose    *)
(* trailing timer is pending; then time, timers, undo/redo, blur and       *)
(* commands.                                                               *)
(***************************************************************************)
InitTimer ==
    /\ doc = Parse(InitialValue)
    /\ sel \in UserRanges(doc)
    /\ undoStack = <<HistoryEntry(doc, sel)>>
    /\ redoStack = <<>>
    /\ isUndoRedoing = FALSE
    /\ resetTimers = 0
    /\ \/ sinceSave = 0 /\ debounceTimeout = DEBOUNCE_MS /\ timers = <<DEBOUNCE_MS>>
       \/ sinceSave = DEBOUNCE_MS /\ debounceTimeout = NoTimer /\ timers = <<>>
    /\ selectedImage = "none"
    /\ isResizing = FALSE
    /\ resizeStartData = NoResize
    /\ editorAttached = TRUE
    /\ InitGhost /\ call = NoCall

NextTimer ==
    \/ \E d \in {TickStep, DEBOUNCE_MS} : Tick(d)
    \/ FireDebounce
    \/ ResetFlag
    \/ Undo
    \/ Redo
    \/ HandleBlur
    \/ RemoveLink
    \/ SetBlockType

SpecTimer == InitTimer /\ [][NextTimer]_vars

(***************************************************************************)
(* Properties of the history.                                              *)
(***************************************************************************)
\* the handlers that change the document and are covered by the history
MutatingEntry == CommandNames \cup {"setHTML", "backspace", "mouseup"}

\* C1: for every mutating entry point (commands, handlePaste, setHTML,
\* image deletion, image resize) a single undo issued right after the
\* mutation restores exactly the content that existed before it
C1_UndoRestoresPreMutation ==
    [][(op \in MutatingEntry /\ ran /\ op' = "undo") => InnerHTML(doc') = pre]_vars

\* C2: after any sequence of n mutating commands applied from content S0,
\* with any timing between them, n undos leave the content equal to S0
C2_UndoInverseLaw ==
    run.undone >= 1 => InnerHTML(doc) = run.pres[Len(run.pres) - run.undone + 1]

\* C3: a burst of k >= 2 mutating commands, each less than 50 ms after the
\* previous one, has added exactly one undo entry once it has settled, and
\* one undo then restores the content from before its first command
Settled == burst.live /\ burst.k >= 2 /\ debounceTimeout = NoTimer /\ ~isUndoRedoing

C3_BurstIsOneEntry ==
    [][/\ Settled' => Len(undoStack') = burst'.len0 + 1
       /\ (Settled /\ op' = "undo") => InnerHTML(doc') = burst.base]_vars

\* the snapshots the cap keeps of all those pushed
Retained(pushed) ==
    SubSeq(pushed, Max(1, Len(pushed) - MAX_HISTORY_SIZE + 1), Len(pushed))

\* C4: the undo stack never holds more than 100 entries; after more than
\* 100 successful saves it holds exactly the 100 most recently pushed
\* snapshots in push order, and undo no longer reaches the older ones
C4_HistoryBound ==
    /\ Len(undoStack) <= MAX_HISTORY_SIZE
    /\ Len(undoStack) <= Len(Retained(allPushed))
    /\ Htmls(undoStack) = SubSeq(Retained(allPushed), 1, Len(undoStack))
    /\ op = "setHTML" => Htmls(undoStack) = Retained(allPushed)
    /\ \A i \in 1..(Len(allPushed) - MAX_HISTORY_SIZE) : InnerHTML(doc) # allPushed[i]

\* more than 100 snapshots were pushed and undo has emptied the stack
C4_Witness ==
    Len(allPushed) > MAX_HISTORY_SIZE /\ undoStack = <<>> /\ op = "undo" /\ ~ran

\* C5: while the restore-in-progress flag is set, every saveHistory call,
\* direct or made by the debounce timer, leaves both stacks and the pending
\* timer unchanged; only an undo/redo itself changes the stacks
C5_ReentrancyGuard ==
    [][(isUndoRedoing /\ ~(op' \in {"undo", "redo"} /\ ran'))
          => /\ undoStack' = undoStack
             /\ redoStack' = redoStack
             /\ \/ debounceTimeout' = debounceTimeout
                \/ op' = "timer" /\ debounceTimeout = 0 /\ debounceTimeout' = NoTimer]_vars

\* a paste handled, saveHistory called, while the flag of an undo is set
C5_Witness == isUndoRedoing /\ op = "handlePaste" /\ ran /\ redoStack # <<>>

\* C6: a mutating command executed while the redo stack is non-empty
\* leaves the redo stack empty
C6_RedoClearedByCommand ==
    [][(op' \in CommandNames /\ ran' /\ doc' # doc /\ redoStack # <<>>)
          => redoStack' = <<>>]_vars

\* C7: undo with an empty undo stack and redo with an empty redo stack
\* change neither the document, nor a stack, nor the flag
C7_EmptyStackNoOp ==
    [][/\ (op' = "undo" /\ undoStack = <<>>)
            => UNCHANGED <<doc, sel, undoStack, redoStack, isUndoRedoing, resetTimers>>
       /\ (op' = "redo" /\ redoStack = <<>>)
            => UNCHANGED <<doc, sel, undoStack, redoStack, isUndoRedoing, resetTimers>>]_vars

\* undo found its stack empty while redo entries exist
C7_Witness == op = "undo" /\ ~ran /\ undoStack = <<>> /\ redoStack # <<>>

\* C8: undo sets the document to the top snapshot of the undo stack, pops
\* it and pushes the pre-undo document onto the redo stack, redo
\* symmetrically; undo immediately followed by redo leaves the content and
\* the undo stack's snapshots as they were before the undo
C8_UndoRedoRoundTrip ==
    [][/\ (op' = "undo" /\ ran')
            => /\ doc' = Parse(Last(undoStack).html)
               /\ undoStack' = Front(undoStack)
               /\ redoStack' = Append(redoStack, HistoryEntry(doc, sel))
       /\ (op' = "redo" /\ ran')
            => /\ doc' = Parse(Last(redoStack).html)
               /\ redoStack' = Front(redoStack)
               /\ undoStack' = Append(undoStack, HistoryEntry(doc, sel))
       /\ (op = "undo" /\ ran /\ op' = "redo")
            => /\ InnerHTML(doc') = pre
               /\ Htmls(undoStack') = preStack]_vars

\* C9: when a cursor path of the restored entry does not resolve in the
\* restored tree, undo/redo still sets the content to the entry's snapshot
\* and still pops and pushes; only the selection is left unrestored
C9_CursorFailureStillRestores ==
    [][cursorFailed'
          => /\ sel' = SelAfterReplaceAll(sel)
             /\ op' = "undo"
                  => /\ doc' = Parse(Last(undoStack).html)
                     /\ undoStack' = Front(undoStack)
                     /\ redoStack' = Append(redoStack, HistoryEntry(doc, sel))
             /\ op' = "redo"
                  => /\ doc' = Parse(Last(redoStack).html)
                     /\ redoStack' = Front(redoStack)
                     /\ undoStack' = Append(undoStack, HistoryEntry(doc, sel))]_vars

\* a restore has met a cursor path that does not resolve
C9_Witness == cursorFailed /\ op \in {"undo", "redo"} /\ ran

\* C10: with no active range every Command Engine operation leaves the
\* document, the undo stack and the redo stack unchanged
C10_NoRangeNoOp ==
    [][(sel.rangeCount = 0 /\ op' \in CommandNames \cup {"noop"})
          => UNCHANGED <<doc, undoStack, redoStack>>]_vars

(***************************************************************************)
(* Properties of the sanitizer.                                            *)
(***************************************************************************)
\* C11: sanitization is idempotent: for every input markup tree x, also
\* one with disallowed elements that carry disallowed style properties,
\* sanitize(sanitize(x)) equals sanitize(x)
C11_SanitizeIdempotent ==
    call.fn = "sanitizeHTML twice" => call.res = call.prev

\* C12: for every input the sanitized output holds only elements of an
\* allowed kind, with only attributes of the allowed list and only style
\* properties of the allowed list, also on the paragraph and span nodes
\* that replace disallowed elements
C12_OutputOnlyAllowed ==
    LET RECURSIVE OnlyAllowed(_)
        OnlyAllowed(ks) ==
            \A i \in 1..Len(ks) :
                \/ IsText(ks[i])
                \/ /\ ks[i].tag \in ALLOWED_TAGS
                   /\ ks[i].other \subseteq allowedAttrs
                   /\ \A j \in 1..Len(ks[i].style) :
                         \E a \in 1..Len(allowedStyles) :
                            ks[i].style[j][1] = allowedStyles[a]
                   /\ OnlyAllowed(ks[i].kids)
    IN  call.fn = "sanitizeHTML" => OnlyAllowed(call.res)

\* C13: every element of a recognized block-level kind that is not a
\* document block kind is replaced by a paragraph with the same children
\* and the same style; <div style="color:red">Hi</div> becomes
\* <p style="color:red">Hi</p>
C13_BlockBecomesParagraph ==
    (call.fn = "sanitizeHTML" /\ call.arg[1].tag \in blockTags)
        => call.res = <<[Elem("P", sanitizeHTML(call.arg[1].kids))
                            EXCEPT !.style = call.arg[1].style]>>

\* C14: sanitization never drops content: a disallowed non-block element
\* is replaced by a span with the same children, so the sequence of text
\* leaves of the output, in document order, equals that of the input
C14_TextLeavesPreserved ==
    LET RECURSIVE TextLeaves(_)
        TextLeaves(ks) ==
            IF ks = <<>> THEN <<>>
            ELSE (IF IsText(Head(ks)) THEN <<Head(ks).text>>
                  ELSE TextLeaves(Head(ks).kids))
                 \o TextLeaves(Tail(ks))
    IN  call.fn = "sanitizeHTML" => TextLeaves(call.res) = TextLeaves(call.arg)

(***************************************************************************)
(* Properties of the style commands.                                       *)
(***************************************************************************)
\* C15: after any setFontSize, setFontFamily, setTextColor or
\* setBackgroundColor, on any document and any non-collapsed selection,
\* also one inside an existing styled span, no styled span is the direct
\* child of another styled span and no styled span is without both text
\* and image content
C15_SpanMergeInvariant ==
    LET RECURSIVE SpansMerged(_, _)
        SpansMerged(ks, inStyledSpan) ==
            \A i \in 1..Len(ks) :
                LET styledSpan == ks[i].tag = "SPAN" /\ ks[i].style # <<>>
                IN  /\ styledSpan
                          => /\ ~inStyledSpan
                             /\ (TextContent(ks[i]) # <<>> \/ HasImage(ks[i].kids))
                    /\ SpansMerged(ks[i].kids, styledSpan)
    IN  (op \in {"setTextColor", "setFontSize"} /\ ran) => SpansMerged(doc, FALSE)

\* the style command name has acted on a non-collapsed selection in a
\* block; want is the property and value it asks for, full tells whether
\* the selection covers the full content of the block
StyleStep(name, want, full) ==
    LET block == findBlockParent(doc, sel.sp)
        b == NodeAt(Root(doc), block)
    IN  /\ op' = name /\ ran'
        /\ sel.rangeCount = 1 /\ ~IsCollapsed(sel)
        /\ block # <<>>
        /\ want = IF name = "setTextColor" THEN <<"color", "red">>
                  ELSE <<"font-size", "12px">>
        /\ full <=> \/ sel = Range(block, 0, block, Len(b.kids))
                    \/ /\ RangeText(doc, sel) = TextContent(b)
                       /\ RangeText(doc, sel) # <<>>
                       /\ ~HasImage(b.kids)

\* C16: when the selection covers the full content of its block, a style
\* command merges the requested properties into the block's own style and
\* introduces no span: the block's children are unchanged and its style
\* is the previous mapping overridden by the requested values
C16_FullBlockStyled ==
    [][\A name \in {"setTextColor", "setFontSize"} :
       \A want \in {<<"color", "red">>, <<"font-size", "12px">>} :
          StyleStep(name, want, TRUE)
             => LET block == findBlockParent(doc, sel.sp)
                    old == NodeAt(Root(doc), block)
                    new == NodeAt(Root(doc'), block)
                    keys == { new.style[i][1] : i \in 1..Len(new.style) }
                            \cup { old.style[i][1] : i \in 1..Len(old.style) }
                            \cup { want[1] }
                IN  /\ Resolves(Root(doc'), block)
                    /\ doc = ReplaceNode(doc', block, [new EXCEPT !.style = old.style])
                    /\ \A k \in keys :
                          StyleValue(new.style, k) =
                             IF k = want[1] THEN want[2] ELSE StyleValue(old.style, k)]_vars

\* a style command has just restyled a fully selected block that had a
\* style of its own
C16_Witness ==
    /\ op \in {"setTextColor", "setFontSize"} /\ ran
    /\ doc[1].tag = "P" /\ Len(doc[1].style) = 2
    /\ doc[1].kids = <<Text(<<"a">>), Elem("IMG", <<>>)>>
    /\ sel = Range(<<1>>, 0, <<1>>, 2)

\* C17: when the selection covers only part of its block, a style command
\* encloses exactly the selected content in a styled span on which each
\* requested property has the requested value, also when the selected
\* content already held styled spans defining that property; text outside
\* the selection is not restyled and the text content of the document is
\* unchanged
C17_PartialSelectionWrapped ==
    [][\A name \in {"setTextColor", "setFontSize"} :
       \A want \in {<<"color", "red">>, <<"font-size", "12px">>} :
          StyleStep(name, want, FALSE)
             => LET cut == DeleteContents(doc, sel)
                    at == InsertAt(cut, sel.sp, sel.so, <<>>)
                    span == NodeAt(Root(doc'), Append(at.parent, at.idx))
                IN  /\ Resolves(Root(doc'), Append(at.parent, at.idx))
                    /\ span.tag = "SPAN"
                    /\ StyleValue(span.style, want[1]) = want[2]
                    /\ TextContent(span) = RangeText(doc, sel)
                    /\ Serialize(SpliceKids(doc', at.parent, at.idx, 1, <<>>)) = Serialize(cut)
                    /\ KidsText(doc') = KidsText(doc)]_vars

(***************************************************************************)
(* Properties of the list commands.                                        *)
(***************************************************************************)
\* C18: for either list kind k, toggleList(k) on a paragraph whose text is
\* T and then toggleList(k) again with the cursor in the created item
\* yields a document with no list and a single paragraph whose text
\* content is exactly T
C18_ListRoundTrip ==
    [][LET RECURSIVE HasList(_)
           HasList(ks) ==
               \E i \in 1..Len(ks) : ks[i].tag \in {"UL", "OL"} \/ HasList(ks[i].kids)
       IN
       \A k \in {"UL", "OL"} :
          (/\ op = ListOp(k) /\ ran
           /\ Len(pre) = 1 /\ pre[1].tag = "P" /\ ~HasList(pre)
           /\ Len(doc) = 1
           /\ sel.rangeCount = 1 /\ NearestAncestor(doc, sel.sp, {"LI"}) # <<>>
           /\ op' = ListOp(k) /\ ran')
             => /\ ~HasList(doc')
                /\ Len(doc') = 1
                /\ doc'[1].tag = "P"
                /\ TextContent(doc'[1]) = KidsText(pre)]_vars

\* toggleList(k) twice has turned the paragraph "It" into a list and back
C18_Witness ==
    /\ steps = 2 /\ ran
    /\ Len(pre) = 1 /\ pre[1].tag \in {"UL", "OL"} /\ op = ListOp(pre[1].tag)
    /\ doc = <<Elem("P", <<Text(<<"I", "t">>)>>)>>

\* C19: toggleList(k) with the cursor inside a list item, for any nesting
\* of lists: if the enclosing list has kind k, every item of that list
\* becomes a standalone paragraph with its content preserved and the list
\* wrapper is removed; if the enclosing list has the other kind, that list
\* is replaced by a list of kind k with the same items in the same order
C19_ToggleInsideItem ==
    [][\A k \in {"UL", "OL"} :
          (op' = ListOp(k) /\ ran' /\ sel.rangeCount = 1
                           /\ Len(NearestAncestor(doc, sel.sp, {"LI"})) > 1)
             => LET list == Front(NearestAncestor(doc, sel.sp, {"LI"}))
                    old == NodeAt(Root(doc), list)
                IN  old.tag \in {"UL", "OL"}
                       => IF old.tag = k
                          THEN doc' = SpliceKids(doc, Front(list), Last(list), 1,
                                          [i \in 1..Len(old.kids) |->
                                              Elem("P", old.kids[i].kids)])
                          ELSE doc' = ReplaceNode(doc, list, [old EXCEPT !.tag = k])]_vars

\* C20: starting from a document that satisfies it, after any sequence of
\* Command Engine operations, setBlockType with the cursor inside a list
\* item included, every list item's parent is a list and every child of a
\* list is a list item
C20_ListNesting ==
    LET RECURSIVE ListsNested(_, _)
        ListsNested(ks, parentTag) ==
            \A i \in 1..Len(ks) :
                /\ ks[i].tag = "LI" => parentTag \in {"UL", "OL"}
                /\ parentTag \in {"UL", "OL"} => ks[i].tag = "LI"
                /\ ListsNested(ks[i].kids, ks[i].tag)
    IN  ListsNested(doc, "#root")

(***************************************************************************)
(* Properties of the document structure and of the single commands.        *)
(***************************************************************************)
\* C21: starting from a document that satisfies it, after any sequence of
\* Command Engine operations (insertImage, setBlockType and toggleList at
\* a cursor inside an inline node, toggleInlineStyle or a style command
\* over several blocks, paste) no block node is a descendant of an inline
\* node
C21_NoBlockInInline ==
    LET blocks == BLOCK_ELEMENTS \cup {"UL", "OL"}
        inlines == {"B", "STRONG", "I", "EM", "U", "S", "STRIKE", "SPAN", "A"}
        RECURSIVE NoBlockBelow(_, _)
        NoBlockBelow(ks, inInline) ==
            \A i \in 1..Len(ks) :
                /\ inInline => ks[i].tag \notin blocks
                /\ NoBlockBelow(ks[i].kids, inInline \/ ks[i].tag \in inlines)
    IN  NoBlockBelow(doc, FALSE)

\* C22: for each scalar attribute (link target, font size, font family, text
\* colour, background colour, block kind) getActiveFormats reports the value
\* of the outermost ancestor of the range start, below the editor root, that
\* defines it; each boolean flag is set iff at least one ancestor asserts it
C22_ActiveFormatsTieBreak ==
    sel.rangeCount = 1 =>
        LET f == getActiveFormats(doc, sel)
            anc == { q \in Prefixes(sel.sp) : ~IsText(NodeAt(Root(doc), q)) }
            Outermost(value, Def(_)) ==
                LET defs == { q \in anc : Def(NodeAt(Root(doc), q)) # "" }
                IN  IF defs = {} THEN value = ""
                    ELSE value = Def(NodeAt(Root(doc),
                                     CHOOSE q \in defs : \A r \in defs : Len(q) <= Len(r)))
            Some(Says(_)) == \E q \in anc : Says(NodeAt(Root(doc), q))
        IN  /\ Outermost(f.link, LAMBDA n : IF n.tag = "A" THEN n.href ELSE "")
            /\ Outermost(f.fontSize, LAMBDA n : StyleValue(n.style, "font-size"))
            /\ Outermost(f.fontFamily, LAMBDA n : StyleValue(n.style, "font-family"))
            /\ Outermost(f.color, LAMBDA n : StyleValue(n.style, "color"))
            /\ Outermost(f.backgroundColor,
                         LAMBDA n : StyleValue(n.style, "background-color"))
            /\ Outermost(f.block, LAMBDA n : IF n.tag = "P" THEN "p"
                                             ELSE IF n.tag = "H1" THEN "h1"
                                             ELSE IF n.tag = "LI" THEN "li" ELSE "")
            /\ f.bold <=> Some(LAMBDA n : \/ n.tag \in {"B", "STRONG"}
                                          \/ StyleValue(n.style, "font-weight")
                                                 \in {"bold", "700"})
            /\ f.italic <=> Some(LAMBDA n : \/ n.tag \in {"I", "EM"}
                                            \/ StyleValue(n.style, "font-style") = "italic")
            /\ f.underline <=> Some(LAMBDA n : \/ n.tag = "U"
                                               \/ StyleValue(n.style, "text-decoration")
                                                      = "underline")
            /\ f.strike <=> Some(LAMBDA n : \/ n.tag \in {"S", "STRIKE"}
                                            \/ StyleValue(n.style, "text-decoration")
                                                   = "line-through")
            /\ f.unorderedList <=> Some(LAMBDA n : n.tag = "UL")
            /\ f.orderedList <=> Some(LAMBDA n : n.tag = "OL")

\* after a style command two ancestors of the range start define different
\* text colours, one of them below a bold element, and the outer colour is
\* the one reported
C22_Witness ==
    /\ ran /\ op = "setFontSize"
    /\ sel.rangeCount = 1
    /\ \E q \in Prefixes(sel.sp) : \E r \in Prefixes(q) :
          /\ q # r
          /\ StyleValue(NodeAt(Root(doc), q).style, "color") = "red"
          /\ StyleValue(NodeAt(Root(doc), r).style, "color") = "blue"
    /\ getActiveFormats(doc, sel).color = "blue"
    /\ getActiveFormats(doc, sel).bold

\* C23: toggleInlineStyle(kind) on a non-collapsed selection for which
\* getActiveFormats reports the kind as active removes exactly one node, the
\* nearest ancestor of the range start whose tag is of that kind, with its
\* children spliced in its place and the text content unchanged; when the
\* kind is not active the selected content is wrapped in one new node of
\* that kind
C23_ToggleInlineStyle ==
    [][(op' = "toggleInlineStyle" /\ ran')
          => LET Elements(d) == { q \in DocPaths(d) : ~IsText(NodeAt(Root(d), q)) }
                 Bolds(d) == { q \in DocPaths(d) : NodeAt(Root(d), q).tag = "B" }
                 el == NearestAncestor(doc, sel.sp, {"B", "STRONG"})
             IN  IF getActiveFormats(doc, sel).bold
                 THEN /\ el # <<>>
                      /\ doc' = SpliceKids(doc, Front(el), Last(el), 1,
                                           NodeAt(Root(doc), el).kids)
                      /\ Cardinality(Elements(doc')) = Cardinality(Elements(doc)) - 1
                      /\ KidsText(doc') = KidsText(doc)
                 ELSE /\ Cardinality(Bolds(doc')) = Cardinality(Bolds(doc)) + 1
                      /\ Cardinality(Elements(doc')) = Cardinality(Elements(doc)) + 1
                      /\ \E q \in Bolds(doc') :
                            NodeAt(Root(doc'), q).kids = RangeContents(doc, sel)
                      /\ KidsText(doc') = KidsText(doc)]_vars

C25_Paste ==
    [][(op' = "handlePaste" /\ ran')
          => \A data \in { [html |-> <<>>, text |-> <<"x">>],
                           [html |-> <<Elem("B", <<Text(<<"x">>)>>)>>, text |-> <<"x">>],
                           [html |-> <<Elem("FONT", <<Text(<<"x">>)>>)>>, text |-> <<"x">>],
                           [html |-> <<[Elem("IMG", <<>>) EXCEPT !.cls = TRUE]>>,
                            text |-> <<>>] } :
                doc' = handlePaste(doc, sel, data).doc
                   => LET inserted == IF data.html # <<>>
                                      THEN Parse(sanitizeHTML(data.html))
                                      ELSE <<Text(data.text)>>
                          n == Len(inserted)
                      IN  /\ \A i \in 1..n :
                                ~IsText(inserted[i]) => inserted[i].tag \in ALLOWED_TAGS
                          /\ \E q \in DocPaths(doc') \cup {<<>>} :
                                \E i \in 1..(Len(NodeAt(Root(doc'), q).kids) - n + 1) :
                                   /\ SubSeq(NodeAt(Root(doc'), q).kids, i, i + n - 1)
                                         = inserted
                                   /\ Serialize(SpliceKids(doc', q, i, n, <<>>))
                                         = Serialize(DeleteContents(doc, sel))]_vars

\* a paste of <font>x</font> together with the text x has replaced a
\* selected character: the sanitized <span>x</span> is in the document, the
\* font element is not
C25_Witness ==
    /\ op = "handlePaste" /\ ran
    /\ \E q \in DocPaths(doc) :
          /\ NodeAt(Root(doc), q).tag = "SPAN"
          /\ NodeAt(Root(doc), q).kids = <<Text(<<"x">>)>>
    /\ \A q \in DocPaths(doc) : NodeAt(Root(doc), q).tag # "FONT"
    /\ KidsText(doc) = <<"a", "x">>

\* C26: removeLink with the range start inside a link replaces the nearest
\* link ancestor by a single text node carrying the link's text content:
\* the text content of the document is unchanged and that link no longer
\* exists; with no link ancestor the document is unchanged
C26_RemoveLink ==
    [][(op' = "removeLink" /\ ran')
          => LET link == NearestAncestor(doc, sel.sp, {"A"})
                 old == NodeAt(Root(doc), link)
                 Links(d) == { q \in DocPaths(d) : NodeAt(Root(d), q).tag = "A" }
             IN  IF link = <<>> THEN doc' = doc
                 ELSE /\ Resolves(Root(doc'), link)
                      /\ IsText(NodeAt(Root(doc'), link))
                      /\ NodeAt(Root(doc'), link).text = TextContent(old)
                      /\ ReplaceNode(doc', link, old) = doc
                      /\ KidsText(doc') = KidsText(doc)
                      /\ Cardinality(Links(doc'))
                            = Cardinality(Links(doc))
                              - Cardinality({ q \in Links(doc) : IsPrefix(link, q) })]_vars

\* removeLink has run with the range start in the text of a link: the
\* document has no link any more and still has the link's text
C26_Witness ==
    /\ op = "removeLink" /\ ran
    /\ \E q \in DocPaths(pre) : NodeAt(Root(pre), q).tag = "A"
    /\ \A q \in DocPaths(doc) : NodeAt(Root(doc), q).tag # "A"
    /\ KidsText(doc) = KidsText(pre)
    /\ KidsText(doc) # <<>>

(***************************************************************************)
(* Properties of the image controller.                                     *)
(***************************************************************************)
\* C27: in every reachable state at most one image of the document carries
\* the selected marker, also after undo, redo or paste have replaced
\* document content
C27_OneImageSelected ==
    Cardinality({ q \in ImagePaths(doc) : NodeAt(Root(doc), q).cls }) <= 1

\* C28: Resizing is entered only from Selected, by pointer-down on a handle,
\* and every resize gesture ends on pointer-up with the controller back in
\* Selected, whatever key or pointer events occur between pointer-down and
\* pointer-up
C28_ResizeGesture ==
    [][/\ (~isResizing /\ isResizing')
             => (op' = "mousedown" /\ selectedImage = "held")
       /\ (isResizing /\ ~isResizing')
             => (op' = "mouseup" /\ selectedImage' = "held")]_vars

\* C29: for every pointer-move during Resizing the width of the image lies
\* in [50, 800] and its height is that width divided by the aspect ratio
\* (width / height) recorded at gesture start; a start of 400x200 dragged
\* by +100 horizontally gives 500x250
C29_ResizeConstrained ==
    [][(op' = "mousemove" /\ HeldPath(doc) # <<>>)
          => LET img == NodeAt(Root(doc'), HeldPath(doc'))
             IN  /\ HeldPath(doc') = HeldPath(doc)
                 /\ img.w >= 50 /\ img.w <= 800
                 /\ img.h * resizeStartData.width = img.w * resizeStartData.height
                 /\ (resizeStartData.width = 400 /\ resizeStartData.height = 200
                       /\ img.w = resizeStartData.width + 100)
                         => (img.w = 500 /\ img.h = 250)]_vars

\* a gesture that started at 400x200 has been dragged by +100: 500x250
C29_Witness ==
    /\ op = "mousemove" /\ isResizing
    /\ resizeStartData.width = 400 /\ resizeStartData.height = 200
    /\ HeldPath(doc) # <<>>
    /\ NodeAt(Root(doc), HeldPath(doc)).w = 500
    /\ NodeAt(Root(doc), HeldPath(doc)).h = 250

\* C30: during Resizing, for a horizontal pointer delta d from the gesture
\* start, the new width before the constraint to [50, 800] is
\* startWidth + d when the dragged handle is top-right or bottom-right and
\* startWidth - d when it is top-left or bottom-left (d = 100 and d = -100
\* on a start width that the constraint leaves alone)
C30_HandleDirection ==
    (/\ isResizing /\ resizeStartData.set /\ call.fn = "handleResizeMouseDown"
     /\ resizeStartData.width \in 150..700)
        => \A d \in {100, -100} :
              newSize(resizeStartData, resizeStartData.x + d).w
                 = IF call.arg[1] \in {"top-right", "bottom-right"}
                   THEN resizeStartData.width + d
                   ELSE resizeStartData.width - d

\* C31: in Selected, pressing Delete or pressing Backspace removes the block
\* wrapper of the selected image from the document and returns the
\* controller to Idle, no image selected
C31_DeleteKeys ==
    [][(op' \in {"backspace", "delete"} /\ selectedImage = "held"
           /\ HeldPath(doc) # <<>> /\ Len(HeldPath(doc)) > 1)
          => /\ selectedImage' = "none"
             /\ doc' = SpliceKids(doc, Front(Front(HeldPath(doc))),
                                  Last(Front(HeldPath(doc))), 1, <<>>)]_vars

(***************************************************************************)
(* Further properties of the history.                                      *)
(***************************************************************************)
\* C32: at every moment at most one debounce timer is pending: a
\* saveHistory call that schedules a timer first cancels the one scheduled
\* before, so timers never accumulate over any sequence of saveHistory
\* calls and timer firings
C32_OneTimerPending ==
    /\ Len(timers) <= 1
    /\ timers = IF debounceTimeout = NoTimer THEN <<>> ELSE <<debounceTimeout>>

\* the third command of a rapid burst: its saveHistory call, the second
\* coalesced one, has replaced the timer of the call before
C32_Witness ==
    /\ burst.live /\ burst.k >= 3
    /\ timers = <<DEBOUNCE_MS>>
    /\ op \notin {"idle", "timer"}

\* C33: every coalesced saveHistory call is followed by exactly one
\* snapshot push made by the trailing timer, under any interleaving of later
\* commands, undo/redo and timer firings: when the trailing timer fires it
\* pushes one snapshot, or a trailing timer is pending again
C33_TrailingPush ==
    [][(op' = "timer")
          => \/ undoStack' = PushCapped(undoStack, HistoryEntry(doc, sel))
             \/ timers' # <<>>]_vars

(***************************************************************************)
(* Further properties of the selection.                                    *)
(***************************************************************************)
\* C34: a range is a full-block selection exactly when its bounds equal the
\* content bounds of the block, or its text, trimmed, equals the text of the
\* block, trimmed, and that trimmed text is not empty; a whitespace-only
\* selection in a whitespace-only block with other bounds is not full-block.
\* setTextColor styles the block itself exactly for a full-block selection.
C34_FullBlockSelection ==
    [][(op' = "setTextColor" /\ ran' /\ findBlockParent(doc, sel.sp) # <<>>)
          => LET block == findBlockParent(doc, sel.sp)
                 b == NodeAt(Root(doc), block)
                 bounds == /\ sel.sp = block /\ sel.so = 0
                           /\ sel.ep = block /\ sel.eo = Len(b.kids)
                 text == /\ Trim(RangeText(doc, sel)) = Trim(TextContent(b))
                         /\ Trim(RangeText(doc, sel)) # <<>>
             IN  (bounds \/ text)
                    <=> (/\ isFullBlockSelected(doc, sel, block)
                         /\ doc' = ReplaceNode(doc, block,
                                      [b EXCEPT !.style = SetStyle(@, "color", "red")]))]_vars

\* C35: in every reachable state the undo stack and the redo stack together
\* hold at most 100 entries, and each undo and each redo leaves the sum of
\* the two lengths unchanged
C35_StacksBound ==
    [][/\ Len(undoStack) + Len(redoStack) <= 100
       /\ Len(undoStack') + Len(redoStack') <= 100
       /\ op' \in {"undo", "redo"}
             => Len(undoStack') + Len(redoStack') = Len(undoStack) + Len(redoStack)]_vars

\* more than 100 snapshots were pushed, then undo and redo have run: the
\* stacks hold 100 entries together, the redo stack one of them
C35_Witness ==
    /\ Len(allPushed) > 100
    /\ op = "redo" /\ ran
    /\ Len(redoStack) = 1
    /\ Len(undoStack) = 99

\* C36: after an undo the redo stack keeps its entries until a command
\* changes the document: editor blur, the firing of a debounce timer and a
\* command that finds nothing to change never clear the redo stack
C36_RedoKept ==
    [][(redoStack # <<>> /\ op' \in {"blur", "timer", "removeLink"} /\ doc' = doc)
          => redoStack' = redoStack]_vars

(***************************************************************************)
(* Further properties of the image controller.                             *)
(***************************************************************************)
\* C37: whenever the controller is in Selected or Resizing, the selected
\* image is a node of the current document: undo, redo, setHTML,
\* setBlockType or toggleList on the block of the image and paste over the
\* image never leave the controller holding an image that is no longer in
\* the document
C37_SelectedImageInDocument ==
    selectedImage = "held" => HeldPath(doc) # <<>>

\* C38: deleting the selected image removes only the image and a wrapper
\* that contains nothing else: the text content of the document is the same
\* before and after, and the editor root itself is never removed, wherever
\* the image sits
C38_DeleteImageOnly ==
    [][(op' = "backspace" /\ HeldPath(doc) # <<>>)
          => /\ KidsText(doc') = KidsText(doc)
             /\ editorAttached']_vars

\* Further properties of the restore-in-progress flag

\* C39: every undo and every redo that starts a restore sets the flag and
\* schedules one deferred reset; while the flag is set a deferred reset is
\* pending, and each deferred reset that runs clears the flag; the flag is
\* raised by nothing but an undo or a redo that restores, so history saving
\* is never disabled for good, also when several undo or redo calls precede
\* the first deferred reset
C39_FlagCleared ==
    [][/\ isUndoRedoing => resetTimers > 0
       /\ isUndoRedoing' => resetTimers' > 0
       /\ (~isUndoRedoing /\ isUndoRedoing') => (op' \in {"undo", "redo"} /\ ran')
       /\ (op' \in {"undo", "redo"} /\ ran')
             => (isUndoRedoing' /\ resetTimers' = resetTimers + 1)
       /\ resetTimers' < resetTimers
             => (~isUndoRedoing' /\ resetTimers' = resetTimers - 1)]_vars

\* two restores preceded the first deferred reset, which has now run: the
\* flag is clear and the second reset is still pending
C39_Witness ==
    ~isUndoRedoing /\ resetTimers = 1 /\ op = "idle" /\ undoStack # <<>>

====
